---------------------------- MODULE Spec2Model ----------------------------
(***************************************************************************)
(* CymCalc (cymcalc.h): the node arena, the constructors, structural       *)
(* equality, the simplifier, the differentiator and the integrator, as a   *)
(* state machine over one ExprArena.  A state is the arena (pool,          *)
(* free_list, free_count), the status of the process (running, or the      *)
(* reason of the exit(1)/abort that ended it), the last API call with its   *)
(* arguments and return value, the number of core operations called, and   *)
(* the program that drives the library: pc is "caller" (or "short caller") *)
(* for a caller that makes any bounded sequence of API calls, or the next  *)
(* statement of one of the example programs of examples/calculus.c, whose  *)
(* locals are loc.  Spec runs the caller and the examples, SpecExamples    *)
(* the examples and the short caller, SpecArena the two callers of the     *)
(* arena functions ("arena" and "filler").                                 *)
(***************************************************************************)
EXTENDS Integers, Sequences, FiniteSets, TLC

VARIABLES pool, free_list, free_count, status, last, nops, pc, loc

vars == <<pool, free_list, free_count, status, last, nops, pc, loc>>

(***************************************************************************)
(* Bounds of the model and program constants.                              *)
(***************************************************************************)
\* slots of the pool: cymcalc.h has 10000, the model a pool that is small
\* enough to enumerate and big enough for the calls of the bounded callers
MAX_EXPR_COUNT == 136

\* (size_t)-1; size_t is unsigned, so "idx < 0" is false for every index
INVALID_INDEX == -1

\* constructor calls a caller makes before the first core operation
MaxNodes == 4

\* the same of the short caller, which runs next to the example programs
FewNodes == 2

\* core operations (simplify, differentiate, integrate, equal) per run
MaxOps == 1

RUN == "run"

ExprTypes == {"NUMBER", "SYMBOL", "ADD", "MUL", "POW", "FUNC", "DIFF", "INT"}

FuncTypes == {"SIN", "COS", "EXP", "LOG"}

\* symbol names the callers use, and the variables they differentiate by
Names == {"x", "y"}

VarNames == {"x"}

\* numeric literals the callers pass to expr_number, as their characters
Literals ==
    { <<"0">>, <<"1">>, <<"-", "1">>, <<"2", "/", "4">> }

(***************************************************************************)
(* GMP rationals (mpq_t): a pair <<numerator, denominator>>, canonical     *)
(* when the denominator is positive and the two have no common factor.     *)
(***************************************************************************)
Abs(n) == IF n < 0 THEN -n ELSE n

RECURSIVE Gcd(_, _)
Gcd(m, n) == IF n = 0 THEN m ELSE Gcd(n, m % n)

mpq_canonicalize(q) ==
    LET g == Gcd(Abs(q[1]), Abs(q[2]))
        s == IF q[2] < 0 THEN -1 ELSE 1
    IN  <<(s * q[1]) \div g, (s * q[2]) \div g>>

mpq_add(p, q) == mpq_canonicalize(<<p[1] * q[2] + q[1] * p[2], p[2] * q[2]>>)

mpq_sub(p, q) == mpq_canonicalize(<<p[1] * q[2] - q[1] * p[2], p[2] * q[2]>>)

mpq_mul(p, q) == mpq_canonicalize(<<p[1] * q[1], p[2] * q[2]>>)

\* defined for q # 0 only: GMP raises a division by zero otherwise
mpq_div(p, q) == mpq_canonicalize(<<p[1] * q[2], p[2] * q[1]>>)

mpq_sgn(q) == IF q[1] > 0 THEN 1 ELSE IF q[1] < 0 THEN -1 ELSE 0

\* the sign of p - q, as mpq_cmp returns it
mpq_cmp(p, q) ==
    LET d == p[1] * q[2] - q[1] * p[2]
    IN  IF d > 0 THEN 1 ELSE IF d < 0 THEN -1 ELSE 0

mpq_cmp_ui(q, n, d) == mpq_cmp(q, <<n, d>>)

Digits == {"0", "1", "2", "3", "4", "5", "6", "7", "8", "9"}

DigitVal(c) ==
    CASE c = "0" -> 0 [] c = "1" -> 1 [] c = "2" -> 2 [] c = "3" -> 3
      [] c = "4" -> 4 [] c = "5" -> 5 [] c = "6" -> 6 [] c = "7" -> 7
      [] c = "8" -> 8 [] c = "9" -> 9

RECURSIVE DecimalValue(_, _)
DecimalValue(s, acc) ==
    IF s = <<>> THEN acc ELSE DecimalValue(Tail(s), 10 * acc + DigitVal(Head(s)))

IsDigits(s) == Len(s) > 0 /\ \A i \in 1..Len(s) : s[i] \in Digits

\* an integer in base 10: an optional minus sign and digits
IsInteger(s) ==
    IF Len(s) > 0 /\ s[1] = "-" THEN IsDigits(Tail(s)) ELSE IsDigits(s)

IntegerValue(s) ==
    IF s[1] = "-" THEN -DecimalValue(Tail(s), 0) ELSE DecimalValue(s, 0)

SlashAt(s) == {i \in 1..Len(s) : s[i] = "/"}

\* mpq_set_str(q, str, 10): [ok |-> the string is "n" or "n/d", q |-> the
\* value read, not canonicalized]
mpq_set_str(s) ==
    IF SlashAt(s) = {}
    THEN IF IsInteger(s) THEN [ok |-> TRUE, q |-> <<IntegerValue(s), 1>>]
         ELSE [ok |-> FALSE, q |-> <<0, 1>>]
    ELSE LET k == CHOOSE i \in SlashAt(s) : \A j \in SlashAt(s) : i <= j
             n == SubSeq(s, 1, k - 1)
             d == SubSeq(s, k + 1, Len(s))
         IN  IF IsInteger(n) /\ IsDigits(d)
             THEN [ok |-> TRUE, q |-> <<IntegerValue(n), DecimalValue(d, 0)>>]
             ELSE [ok |-> FALSE, q |-> <<0, 1>>]

(***************************************************************************)
(* The arena.  The operators below take and return the process state       *)
(*   a = [pool, free_list, free_count, status]                             *)
(* and a call returns [a |-> the state after it, r |-> its return value].  *)
(* exit(1) sets status to the reason; a call on an exited process does     *)
(* nothing, which is how an exit inside a nested call ends its callers.    *)
(***************************************************************************)
Slots == 0..(MAX_EXPR_COUNT - 1)

Ret(a, r) == [a |-> a, r |-> r]

Exit(a, why) == [a EXCEPT !.status = why]

Running(a) == a.status = RUN

\* a slot expr_arena_init has set up and no constructor has written
Blank == [used |-> FALSE, type |-> "UNINIT"]

expr_arena_init ==
    [pool       |-> [i \in Slots |-> Blank],
     free_list  |-> [i \in Slots |-> MAX_EXPR_COUNT - 1 - i],
     free_count |-> MAX_EXPR_COUNT,
     status     |-> RUN]

\* expr_arena_alloc as it would be if it gave up with one slot left
expr_arena_alloc_early(a) ==
    IF ~Running(a) THEN Ret(a, INVALID_INDEX)
    ELSE IF a.free_count <= 1
    THEN Ret(Exit(a, "exit: ExprArena out of memory"), INVALID_INDEX)
    ELSE LET index == a.free_list[a.free_count - 1]
         IN  Ret([a EXCEPT !.free_count = a.free_count - 1,
                           !.pool[index] = [used |-> TRUE, type |-> a.pool[index].type]],
                 index)

\* expr_arena_alloc as it would be if it left the slot on the free list
expr_arena_alloc_keeping(a) ==
    IF ~Running(a) THEN Ret(a, INVALID_INDEX)
    ELSE IF a.free_count = 0 THEN Ret(Exit(a, "exit: ExprArena out of memory"), INVALID_INDEX)
    ELSE LET index == a.free_list[a.free_count - 1]
             count == IF a.pool[index].used THEN a.free_count - 1 ELSE a.free_count
         IN  Ret([a EXCEPT !.free_count = count,
                           !.pool[index] = [used |-> TRUE, type |-> a.pool[index].type]],
                 index)

\* expr_arena_alloc as it would be if it handed out the first slot again
expr_arena_alloc_first(a) ==
    IF ~Running(a) THEN Ret(a, INVALID_INDEX)
    ELSE IF a.free_count = 0 THEN Ret(Exit(a, "exit: ExprArena out of memory"), INVALID_INDEX)
    ELSE Ret([a EXCEPT !.free_count = a.free_count - 1,
                      !.pool[0] = [used |-> TRUE, type |-> a.pool[0].type]],
             0)

\* alloc leaves the slot's type as it was and zeroes its data
expr_arena_alloc(a) ==
    IF ~Running(a) THEN Ret(a, INVALID_INDEX)
    ELSE IF a.free_count = 0 THEN Ret(Exit(a, "exit: ExprArena out of memory"), INVALID_INDEX)
    ELSE LET index == a.free_list[a.free_count - 1]
         IN  Ret([a EXCEPT !.free_count = a.free_count - 1,
                           !.pool[index] = [used |-> TRUE, type |-> a.pool[index].type]],
                 index)

\* the fields of a node that expr_arena_free releases (mpq_clear, free)
Payload(type) ==
    CASE type = "NUMBER" -> {"value"}
      [] type = "SYMBOL" -> {"name"}
      [] type \in {"DIFF", "INT"} -> {"var"}
      [] OTHER -> {}

\* the slot after expr_arena_free: not used, its payload released, the rest
\* of its data left as it is.  The switch reads the type of the slot; on a
\* slot that expr_arena_alloc returned and no constructor wrote, the data is
\* all zero and every case of the switch releases nothing.
Released(e) ==
    [f \in (DOMAIN e) \ Payload(e.type) |-> IF f = "used" THEN FALSE ELSE e[f]]

\* expr_arena_free as it would be without the test of used
expr_arena_free_unused(a, index) ==
    IF ~Running(a) THEN a
    ELSE IF index = INVALID_INDEX \/ a.free_count = MAX_EXPR_COUNT THEN a
    ELSE [a EXCEPT !.pool[index] = Released(a.pool[index]),
                   !.free_list[a.free_count] = index,
                   !.free_count = a.free_count + 1]

\* expr_arena_free as it would be if it put the slot under the top of the
\* free list
expr_arena_free_under(a, index) ==
    IF ~Running(a) THEN a
    ELSE IF index = INVALID_INDEX \/ ~a.pool[index].used THEN a
    ELSE IF a.free_count = 0
    THEN [a EXCEPT !.pool[index] = Released(a.pool[index]),
                   !.free_list[0] = index,
                   !.free_count = 1]
    ELSE [a EXCEPT !.pool[index] = Released(a.pool[index]),
                   !.free_list[a.free_count] = a.free_list[a.free_count - 1],
                   !.free_list[a.free_count - 1] = index,
                   !.free_count = a.free_count + 1]

\* expr_arena_free as it would be if it did not count the slot it releases
expr_arena_free_uncounted(a, index) ==
    IF ~Running(a) THEN a
    ELSE IF index = INVALID_INDEX \/ ~a.pool[index].used THEN a
    ELSE [a EXCEPT !.pool[index] = Released(a.pool[index]),
                   !.free_list[a.free_count] = index]

\* index is INVALID_INDEX or the index of a slot
expr_arena_free(a, index) ==
    IF ~Running(a) THEN a
    ELSE IF index = INVALID_INDEX \/ ~a.pool[index].used THEN a
    ELSE [a EXCEPT !.pool[index] = Released(a.pool[index]),
                   !.free_list[a.free_count] = index,
                   !.free_count = a.free_count + 1]

\* the iterations lo..hi of the loop of expr_arena_clear, in order: those of
\* the lower half of the range, then those of the upper half
RECURSIVE ClearRange(_, _, _)
ClearRange(a, lo, hi) ==
    IF ~Running(a) THEN a
    ELSE IF lo = hi THEN (IF a.pool[lo].used THEN expr_arena_free(a, lo) ELSE a)
    ELSE LET mid == (lo + hi) \div 2
             Upper(b) == ClearRange(b, mid + 1, hi)
         IN  Upper(ClearRange(a, lo, mid))

\* expr_arena_clear as it would be if its loop began at slot 1
expr_arena_clear_from_one(a) == ClearRange(a, 1, MAX_EXPR_COUNT - 1)

expr_arena_clear(a) == ClearRange(a, 0, MAX_EXPR_COUNT - 1)

\* expr_arena_init on an arena that is in use: the slots keep what is in them
expr_arena_init_again(a) ==
    IF ~Running(a) THEN a
    ELSE [a EXCEPT !.pool = [i \in Slots |-> [a.pool[i] EXCEPT !.used = FALSE]],
                   !.free_list = expr_arena_init.free_list,
                   !.free_count = MAX_EXPR_COUNT]

\* the test of expr_at as it would be without the test of used
BadIndexInRange(a, index) ==
    \/ index = INVALID_INDEX
    \/ index >= MAX_EXPR_COUNT

\* the test of expr_at that ends the process
BadIndex(a, index) ==
    \/ index = INVALID_INDEX
    \/ index >= MAX_EXPR_COUNT
    \/ ~a.pool[index].used

AnyBad(a, S) == \E i \in S : BadIndex(a, i)

ExitIndex(a) == Exit(a, "exit: error out of range expr index")

expr_at(a, index) == a.pool[index]

\* allocate a slot and write node e into it, as every constructor does
Construct(a, e) ==
    LET Write(A) ==
            IF ~Running(A.a) THEN Ret(A.a, INVALID_INDEX)
            ELSE Ret([A.a EXCEPT !.pool[A.r] = e], A.r)
    IN  Write(expr_arena_alloc(a))

NumberNode(q) == [used |-> TRUE, type |-> "NUMBER", value |-> q]

expr_number(a, num_str) ==
    LET Write(A, p) ==
            IF ~Running(A.a) THEN Ret(A.a, INVALID_INDEX)
            ELSE IF ~p.ok THEN Ret(Exit(A.a, "exit: Invalid rational string"), INVALID_INDEX)
            ELSE IF p.q[2] = 0 THEN Ret(Exit(A.a, "abort: division by zero"), INVALID_INDEX)
            ELSE Ret([A.a EXCEPT !.pool[A.r] = NumberNode(mpq_canonicalize(p.q))], A.r)
    IN  Write(expr_arena_alloc(a), mpq_set_str(num_str))

expr_number_mpq(a, value) == Construct(a, NumberNode(value))

expr_symbol(a, name) == Construct(a, [used |-> TRUE, type |-> "SYMBOL", name |-> name])

BinopNode(t, left, right) == [used |-> TRUE, type |-> t, left |-> left, right |-> right]

expr_add(a, left, right) == Construct(a, BinopNode("ADD", left, right))

expr_mul(a, left, right) == Construct(a, BinopNode("MUL", left, right))

expr_pow(a, base, exponent) == Construct(a, BinopNode("POW", base, exponent))

expr_func(a, f, arg) ==
    LET Write(A) ==
            IF ~Running(A.a) THEN Ret(A.a, INVALID_INDEX)
            ELSE IF f \notin FuncTypes
            THEN Ret(Exit(A.a, "exit: Unknown function type"), INVALID_INDEX)
            ELSE Ret([A.a EXCEPT !.pool[A.r] =
                         [used |-> TRUE, type |-> "FUNC", func |-> f, arg |-> arg]], A.r)
    IN  Write(expr_arena_alloc(a))

expr_diff(a, f, var) ==
    Construct(a, [used |-> TRUE, type |-> "DIFF", inner |-> f, var |-> var])

expr_int(a, f, var) ==
    Construct(a, [used |-> TRUE, type |-> "INT", inner |-> f, var |-> var])

\* expr_type(a, idx) and the other accessors, on an index expr_at accepts
expr_type(a, idx) == a.pool[idx].type

expr_value(a, idx) == a.pool[idx].value

expr_name(a, idx) == a.pool[idx].name

expr_left(a, idx) == a.pool[idx].left

expr_right(a, idx) == a.pool[idx].right

IsNumber(a, idx) == expr_type(a, idx) = "NUMBER"

\* expr_type(a, idx) == EXPR_NUMBER && mpq_cmp_ui(*expr_value(a, idx), n, 1) == 0
IsNumberEq(a, idx, n) == IsNumber(a, idx) /\ mpq_cmp_ui(expr_value(a, idx), n, 1) = 0

(***************************************************************************)
(* Structural equality.  r is the int that expr_equal returns.             *)
(***************************************************************************)
RECURSIVE expr_equal(_, _, _)
\* expr_equal as it would be if it took Add, Mul and Pow for commutative
expr_equal_unordered(a, a_idx, b_idx) ==
    IF ~Running(a) THEN Ret(a, 0)
    ELSE IF a_idx = b_idx THEN Ret(a, 1)
    ELSE IF AnyBad(a, {a_idx, b_idx}) THEN Ret(ExitIndex(a), 0)
    ELSE LET ea == expr_at(a, a_idx)
             eb == expr_at(a, b_idx)
         IN  IF ea.type # eb.type THEN Ret(a, 0)
             ELSE CASE ea.type = "NUMBER" ->
                         Ret(a, IF mpq_cmp(ea.value, eb.value) = 0 THEN 1 ELSE 0)
                    [] ea.type = "SYMBOL" ->
                         Ret(a, IF ea.name = eb.name THEN 1 ELSE 0)
                    [] ea.type \in {"ADD", "MUL", "POW"} ->
                         Ret(a, IF \/ /\ expr_equal(a, ea.left, eb.left).r = 1
                                      /\ expr_equal(a, ea.right, eb.right).r = 1
                                   \/ /\ expr_equal(a, ea.left, eb.right).r = 1
                                      /\ expr_equal(a, ea.right, eb.left).r = 1
                                THEN 1 ELSE 0)
                    [] ea.type = "FUNC" ->
                         IF ea.func # eb.func THEN Ret(a, 0)
                         ELSE expr_equal(a, ea.arg, eb.arg)
                    [] OTHER ->
                         IF ea.var # eb.var THEN Ret(a, 0)
                         ELSE expr_equal(a, ea.inner, eb.inner)

\* the call expr_equal(a_idx, b_idx) made below the calls of path
RECURSIVE expr_equal_from(_, _, _, _)
expr_equal_from(a, a_idx, b_idx, path) ==
    IF ~Running(a) THEN Ret(a, 0)
    ELSE IF a_idx = b_idx THEN Ret(a, 1)
    \* "a_idx < 0 || b_idx < 0" is false: the indices are unsigned
    ELSE IF AnyBad(a, {a_idx, b_idx}) THEN Ret(ExitIndex(a), 0)
    \* the same call below itself: the recursion never returns
    ELSE IF <<a_idx, b_idx>> \in path
    THEN Ret(Exit(a, "crash: unbounded recursion in expr_equal"), 0)
    ELSE LET below == path \cup {<<a_idx, b_idx>>}
             ea == expr_at(a, a_idx)
             eb == expr_at(a, b_idx)
             \* left && right: the right operands are compared if the left are equal
             AndRight(L) ==
                 IF ~Running(L.a) \/ L.r = 0 THEN Ret(L.a, 0)
                 ELSE expr_equal_from(L.a, ea.right, eb.right, below)
         IN  IF ea.type # eb.type THEN Ret(a, 0)
             ELSE CASE ea.type = "NUMBER" ->
                         Ret(a, IF mpq_cmp(ea.value, eb.value) = 0 THEN 1 ELSE 0)
                    [] ea.type = "SYMBOL" ->
                         Ret(a, IF ea.name = eb.name THEN 1 ELSE 0)
                    [] ea.type \in {"ADD", "MUL", "POW"} ->
                         AndRight(expr_equal_from(a, ea.left, eb.left, below))
                    [] ea.type = "FUNC" ->
                         IF ea.func # eb.func THEN Ret(a, 0)
                         ELSE expr_equal_from(a, ea.arg, eb.arg, below)
                    [] ea.type \in {"DIFF", "INT"} ->
                         IF ea.var # eb.var THEN Ret(a, 0)
                         ELSE expr_equal_from(a, ea.inner, eb.inner, below)
                    [] OTHER ->
                         Ret(Exit(a, "exit: Unknown expression type in expr_equal"), 0)

expr_equal(a, a_idx, b_idx) == expr_equal_from(a, a_idx, b_idx, {})

(***************************************************************************)
(* Substitution and numeric evaluation.  A double is kept as the term of   *)
(* the floating-point operations that compute it.                          *)
(***************************************************************************)
\* expr_add, expr_mul or expr_pow of the two substituted operands
SubstitutedBinop(t, L, R) == Construct(R.a, BinopNode(t, L.r, R.r))

SubstitutedFunc(f, A) == expr_func(A.a, f, A.r)

RECURSIVE expr_substitute(_, _, _, _)
expr_substitute(a, idx, symbol_name, value_str) ==
    IF ~Running(a) THEN Ret(a, INVALID_INDEX)
    ELSE IF BadIndex(a, idx) THEN Ret(ExitIndex(a), INVALID_INDEX)
    ELSE LET e == expr_at(a, idx)
             Right(L) ==
                 SubstitutedBinop(e.type, L,
                                  expr_substitute(L.a, e.right, symbol_name, value_str))
         IN  CASE e.type = "NUMBER" -> Ret(a, idx)
               [] e.type = "SYMBOL" ->
                    IF e.name = symbol_name THEN expr_number(a, value_str)
                    ELSE Ret(a, idx)
               [] e.type \in {"ADD", "MUL", "POW"} ->
                    Right(expr_substitute(a, e.left, symbol_name, value_str))
               [] e.type = "FUNC" ->
                    SubstitutedFunc(e.func,
                                    expr_substitute(a, e.arg, symbol_name, value_str))
               [] OTHER ->
                    Ret(Exit(a, "exit: Unknown expression type in expr_substitute"),
                        INVALID_INDEX)

\* what a call that does not return leaves in place of a double
NoDouble == [op |-> "none"]

\* left + right, left * right or pow(base, exponent)
DoubleBinop(t, L, R) ==
    IF ~Running(R.a) THEN Ret(R.a, NoDouble)
    ELSE Ret(R.a, [op |-> CASE t = "ADD" -> "+" [] t = "MUL" -> "*" [] OTHER -> "pow",
                   left |-> L.r, right |-> R.r])

\* sin, cos, exp or log of the argument
DoubleFunc(f, A) ==
    IF ~Running(A.a) THEN Ret(A.a, NoDouble)
    ELSE IF f \notin FuncTypes
    THEN Ret(Exit(A.a, "exit: Unknown function in expr_eval_numeric"), NoDouble)
    ELSE Ret(A.a, [op |-> f, arg |-> A.r])

\* expr_eval_numeric as it would be if it took the right operand of a sum, a
\* product or a power for evaluated once the left one is
RECURSIVE expr_eval_numeric_left(_, _)
expr_eval_numeric_left(a, idx) ==
    IF ~Running(a) THEN Ret(a, NoDouble)
    ELSE IF BadIndex(a, idx) THEN Ret(ExitIndex(a), NoDouble)
    ELSE LET e == expr_at(a, idx)
             Right(L) == DoubleBinop(e.type, L, Ret(L.a, NoDouble))
         IN  CASE e.type = "NUMBER" -> Ret(a, [op |-> "mpq_get_d", value |-> e.value])
               [] e.type = "SYMBOL" ->
                    Ret(Exit(a, "exit: Cannot evaluate expression with free symbol"),
                        NoDouble)
               [] e.type \in {"ADD", "MUL", "POW"} -> Right(expr_eval_numeric_left(a, e.left))
               [] e.type = "FUNC" -> DoubleFunc(e.func, expr_eval_numeric_left(a, e.arg))
               [] OTHER ->
                    Ret(Exit(a, "exit: Unknown expression type in expr_eval_numeric"),
                        NoDouble)

RECURSIVE expr_eval_numeric(_, _)
expr_eval_numeric(a, idx) ==
    IF ~Running(a) THEN Ret(a, NoDouble)
    ELSE IF BadIndex(a, idx) THEN Ret(ExitIndex(a), NoDouble)
    ELSE LET e == expr_at(a, idx)
             Right(L) == DoubleBinop(e.type, L, expr_eval_numeric(L.a, e.right))
         IN  CASE e.type = "NUMBER" -> Ret(a, [op |-> "mpq_get_d", value |-> e.value])
               [] e.type = "SYMBOL" ->
                    Ret(Exit(a, "exit: Cannot evaluate expression with free symbol"),
                        NoDouble)
               [] e.type \in {"ADD", "MUL", "POW"} -> Right(expr_eval_numeric(a, e.left))
               [] e.type = "FUNC" -> DoubleFunc(e.func, expr_eval_numeric(a, e.arg))
               [] OTHER ->
                    Ret(Exit(a, "exit: Unknown expression type in expr_eval_numeric"),
                        NoDouble)

(***************************************************************************)
(* Exact arithmetic on two Number nodes.                                   *)
(***************************************************************************)
NotNumbers(a, a_idx, b_idx) == ~IsNumber(a, a_idx) \/ ~IsNumber(a, b_idx)

expr_add_numbers(a, a_idx, b_idx) ==
    IF ~Running(a) THEN Ret(a, INVALID_INDEX)
    ELSE IF AnyBad(a, {a_idx, b_idx}) THEN Ret(ExitIndex(a), INVALID_INDEX)
    ELSE IF NotNumbers(a, a_idx, b_idx)
    THEN Ret(Exit(a, "exit: expr_add_numbers: operands must be EXPR_NUMBER"), INVALID_INDEX)
    ELSE Construct(a, NumberNode(mpq_add(expr_value(a, a_idx), expr_value(a, b_idx))))

\* expr_mul_numbers as it would be if it added its operands
expr_mul_numbers_adding(a, a_idx, b_idx) == expr_add_numbers(a, a_idx, b_idx)

expr_mul_numbers(a, a_idx, b_idx) ==
    IF ~Running(a) THEN Ret(a, INVALID_INDEX)
    ELSE IF AnyBad(a, {a_idx, b_idx}) THEN Ret(ExitIndex(a), INVALID_INDEX)
    ELSE IF NotNumbers(a, a_idx, b_idx)
    THEN Ret(Exit(a, "exit: expr_mul_numbers: operands must be EXPR_NUMBER"), INVALID_INDEX)
    ELSE Construct(a, NumberNode(mpq_mul(expr_value(a, a_idx), expr_value(a, b_idx))))

\* the operand types the "reorder" rules of expr_simplify move a Number before
ReorderTypes == {"SYMBOL", "FUNC", "MUL", "ADD"}

(***************************************************************************)
(* The simplifier, the differentiator, the integrator and expr_div, which  *)
(* call each other.  r is the index returned, INVALID_INDEX included.      *)
(* Where C leaves the order of two argument evaluations open, the model    *)
(* evaluates left to right: the order changes slot numbers, not trees.     *)
(* An operator that takes the result of a call as a parameter is the rest  *)
(* of the C function after that call.                                      *)
(***************************************************************************)
RECURSIVE expr_simplify(_, _)
RECURSIVE expr_differentiate(_, _, _)
RECURSIVE expr_integrate(_, _, _)
RECURSIVE expr_div(_, _, _)

\* expr_simplify(a, built), built the result of the call in its argument
SimplifyOf(built) == expr_simplify(built.a, built.r)

\* case EXPR_ADD of expr_simplify, e the node at idx
SimplifyAdd(a, e) ==
    LET L == expr_simplify(a, e.left)
        R == expr_simplify(L.a, e.right)
        \* ExprIndex result = expr_mul(a, sum, x1)
        Factor(sum, x1) == expr_mul(sum.a, sum.r, x1)
        \* a*x + b*x -> (a+b)*x when Q, the comparison of x1 and x2, is 1
        SameFactor(b, left, right, Q) ==
            IF ~Running(Q.a) THEN Ret(Q.a, INVALID_INDEX)
            ELSE IF Q.r = 1
            THEN Factor(SimplifyOf(expr_add(b, expr_left(b, left), expr_left(b, right))),
                        expr_right(b, left))
            \* keep as ADD
            ELSE expr_add(b, left, right)
        Rules(b, left, right) ==
            IF ~Running(b) THEN Ret(b, INVALID_INDEX)
            \* number + number -> number
            ELSE IF IsNumber(b, left) /\ IsNumber(b, right)
            THEN expr_add_numbers(b, left, right)
            ELSE IF IsNumberEq(b, left, 0) THEN expr_simplify(b, right)
            ELSE IF IsNumberEq(b, right, 0) THEN expr_simplify(b, left)
            \* reorder if left is symbol/function and right is number
            ELSE IF expr_type(b, left) \in ReorderTypes /\ IsNumber(b, right)
            THEN SimplifyOf(expr_add(b, right, left))
            ELSE SameFactor(b, left, right,
                            IF expr_type(b, left) = "MUL" /\ expr_type(b, right) = "MUL"
                            THEN expr_equal(b, expr_right(b, left), expr_right(b, right))
                            ELSE Ret(b, 0))
    IN  Rules(R.a, L.r, R.r)

\* "number * (number * expr)" and "number * (number + expr)": the product
\* of left and the left operand of right
MergeLeft(b, left, rightleft) ==
    IF BadIndex(b, rightleft) THEN Ret(ExitIndex(b), INVALID_INDEX)
    ELSE IF IsNumber(b, rightleft) THEN expr_mul_numbers(b, left, rightleft)
    ELSE expr_mul(b, left, rightleft)

\* the last two rules of case EXPR_MUL: x * x and x^a * x^b, else keep
SimplifyMulTail(b, left, right) ==
    LET \* ExprIndex result = expr_pow(a, base1, exp_sum)
        PowSum(exp_sum) == expr_pow(exp_sum.a, expr_left(b, left), exp_sum.r)
        \* x^a * x^b -> x^(a+b) when P, the comparison of the bases, is 1
        SameBase(P) ==
            IF ~Running(P.a) THEN Ret(P.a, INVALID_INDEX)
            ELSE IF P.r = 1
            THEN PowSum(SimplifyOf(expr_add(b, expr_right(b, left), expr_right(b, right))))
            \* keep as MUL
            ELSE expr_mul(b, left, right)
        Square(exponent) == SimplifyOf(expr_pow(exponent.a, left, exponent.r))
        \* x * x -> x^2 when Q, the comparison of left and right, is 1
        Same(Q) ==
            IF ~Running(Q.a) THEN Ret(Q.a, INVALID_INDEX)
            ELSE IF Q.r = 1 THEN Square(expr_number(b, <<"2">>))
            ELSE SameBase(IF expr_type(b, left) = "POW" /\ expr_type(b, right) = "POW"
                          THEN expr_equal(b, expr_left(b, left), expr_left(b, right))
                          ELSE Ret(b, 0))
    IN  Same(expr_equal(b, left, right))

\* case EXPR_MUL of expr_simplify
SimplifyMul(a, e) ==
    LET L == expr_simplify(a, e.left)
        R == expr_simplify(L.a, e.right)
        \* ExprIndex newmul = expr_mul(a, merged, rightright)
        TimesRest(merged, rightright) ==
            SimplifyOf(expr_mul(merged.a, merged.r, rightright))
        \* ExprIndex newmul = expr_add(a, merged, rightright)
        PlusRest(merged, rightright) ==
            SimplifyOf(expr_add(rightright.a, merged.r, rightright.r))
        \* ExprIndex rightright = expr_mul(a, left, expr_right(a, right))
        Distribute(merged, left, rest) == PlusRest(merged, expr_mul(merged.a, left, rest))
        Rules(b, left, right) ==
            IF ~Running(b) THEN Ret(b, INVALID_INDEX)
            \* number * number -> number
            ELSE IF IsNumber(b, left) /\ IsNumber(b, right)
            THEN expr_mul_numbers(b, left, right)
            \* 1 * right -> right
            ELSE IF IsNumberEq(b, left, 1) THEN expr_simplify(b, right)
            \* 0 * anything -> 0
            ELSE IF IsNumberEq(b, left, 0) THEN expr_number(b, <<"0">>)
            \* reorder if left is symbol/function and right is number
            ELSE IF expr_type(b, left) \in ReorderTypes /\ IsNumber(b, right)
            THEN SimplifyOf(expr_mul(b, right, left))
            \* number * (number * expr) -> (number * number) * expr
            ELSE IF IsNumber(b, left) /\ expr_type(b, right) = "MUL"
            THEN TimesRest(MergeLeft(b, left, expr_left(b, right)), expr_right(b, right))
            \* number * (number + expr) -> (number * number) + (number * expr)
            ELSE IF IsNumber(b, left) /\ expr_type(b, right) = "ADD"
            THEN Distribute(MergeLeft(b, left, expr_left(b, right)), left,
                            expr_right(b, right))
            ELSE SimplifyMulTail(b, left, right)
    IN  Rules(R.a, L.r, R.r)

\* case EXPR_POW of expr_simplify
SimplifyPow(a, e) ==
    LET B == expr_simplify(a, e.left)
        E == expr_simplify(B.a, e.right)
        Rules(b, base, exponent) ==
            IF ~Running(b) THEN Ret(b, INVALID_INDEX)
            \* x^0 = 1
            ELSE IF IsNumberEq(b, exponent, 0) THEN expr_number(b, <<"1">>)
            \* x^1 = x
            ELSE IF IsNumberEq(b, exponent, 1) THEN expr_simplify(b, base)
            \* 0^x = 0
            ELSE IF IsNumberEq(b, base, 0) THEN expr_number(b, <<"0">>)
            \* 1^x = 1
            ELSE IF IsNumberEq(b, base, 1) THEN expr_number(b, <<"1">>)
            ELSE expr_pow(b, base, exponent)
    IN  Rules(E.a, B.r, E.r)

\* case EXPR_FUNC of expr_simplify
SimplifyFunc(a, e) ==
    LET arg == expr_simplify(a, e.arg)
    IN  expr_func(arg.a, e.func, arg.r)

\* case EXPR_DIFF of expr_simplify, after "attempted = expr_differentiate(...)"
\* case EXPR_DIFF as it would be if it never took the differentiator's result
AlwaysDeferred(attempted, simplified_inner, var) ==
    expr_diff(attempted.a, simplified_inner, var)

DifferentiatedOrDeferred(attempted, simplified_inner, var) ==
    IF attempted.r # INVALID_INDEX THEN expr_simplify(attempted.a, attempted.r)
    \* Return symbolic diff since it couldn't be evaluated
    ELSE expr_diff(attempted.a, simplified_inner, var)

\* case EXPR_DIFF of expr_simplify
SimplifyDiff(a, e) ==
    LET simplified_inner == expr_simplify(a, e.inner)
    IN  DifferentiatedOrDeferred(
            expr_differentiate(simplified_inner.a, simplified_inner.r, e.var),
            simplified_inner.r, e.var)

\* case EXPR_INT as it would be if it simplified the Integral of the resolved
\* integral, a node that triggers the same rule again
IntegratedAgain(attempted, simp_inner, var) ==
    IF attempted.r # INVALID_INDEX THEN SimplifyOf(expr_int(attempted.a, attempted.r, var))
    ELSE expr_int(attempted.a, simp_inner, var)

\* case EXPR_INT of expr_simplify, after "attempted = expr_integrate(...)"
IntegratedOrDeferred(attempted, simp_inner, var) ==
    IF attempted.r # INVALID_INDEX THEN expr_simplify(attempted.a, attempted.r)
    ELSE expr_int(attempted.a, simp_inner, var)

\* case EXPR_INT of expr_simplify
SimplifyInt(a, e) ==
    LET simp_inner == expr_simplify(a, e.inner)
    IN  IntegratedOrDeferred(expr_integrate(simp_inner.a, simp_inner.r, e.var),
                             simp_inner.r, e.var)

expr_simplify(a, idx) ==
    IF ~Running(a) THEN Ret(a, INVALID_INDEX)
    ELSE IF BadIndex(a, idx) THEN Ret(ExitIndex(a), INVALID_INDEX)
    ELSE LET e == expr_at(a, idx)
         IN  CASE e.type \in {"NUMBER", "SYMBOL"} -> Ret(a, idx)
               [] e.type = "ADD"  -> SimplifyAdd(a, e)
               [] e.type = "MUL"  -> SimplifyMul(a, e)
               [] e.type = "POW"  -> SimplifyPow(a, e)
               [] e.type = "FUNC" -> SimplifyFunc(a, e)
               [] e.type = "DIFF" -> SimplifyDiff(a, e)
               [] e.type = "INT"  -> SimplifyInt(a, e)
               [] OTHER -> Ret(Exit(a, "exit: Unknown expression type in expr_simplify"),
                               INVALID_INDEX)

\* the test of the two power rules as it would be if it took any Symbol for
\* the variable
MonomialShapeOfAny(a, base, exponent, var_name) ==
    IF BadIndex(a, exponent) THEN "EXIT"
    ELSE IF ~IsNumber(a, exponent) THEN "NO"
    ELSE IF BadIndex(a, base) THEN "EXIT"
    ELSE IF expr_type(a, base) = "SYMBOL" THEN "YES"
    ELSE "NO"

\* the test of the two power rules: exponent is a Number and base is the
\* Symbol named var_name ("EXIT" when expr_type meets an index expr_at refuses)
MonomialShape(a, base, exponent, var_name) ==
    IF BadIndex(a, exponent) THEN "EXIT"
    ELSE IF ~IsNumber(a, exponent) THEN "NO"
    ELSE IF BadIndex(a, base) THEN "EXIT"
    ELSE IF expr_type(a, base) = "SYMBOL" /\ expr_name(a, base) = var_name THEN "YES"
    ELSE "NO"

\* case EXPR_POW of expr_differentiate: d/dx x^n = n * x^(n-1)
DifferentiatePow(a, e, var_name) ==
    LET base     == e.left
        exponent == e.right
        \* return expr_mul(a, coeff_n, x_pow_n_minus_1)
        Product(x_pow_n_minus_1, coeff_n) ==
            expr_mul(coeff_n.a, coeff_n.r, x_pow_n_minus_1.r)
        Coeff(x_pow_n_minus_1) ==
            Product(x_pow_n_minus_1,
                    expr_number_mpq(x_pow_n_minus_1.a, expr_value(a, exponent)))
        Power(new_exp_idx) == Coeff(expr_pow(new_exp_idx.a, base, new_exp_idx.r))
        Rule(shape) ==
            IF shape = "EXIT" THEN Ret(ExitIndex(a), INVALID_INDEX)
            ELSE IF shape = "YES"
            THEN Power(expr_number_mpq(a, mpq_sub(expr_value(a, exponent), <<1, 1>>)))
            \* "Power rule for general expressions not implemented yet."
            ELSE Ret(a, INVALID_INDEX)
    IN  Rule(MonomialShape(a, base, exponent, var_name))

\* case EXPR_FUNC of expr_differentiate: the chain rule, du already computed
DifferentiateFunc(b, e, du) ==
    LET u == e.arg
        \* return expr_mul(a, <the derivative of the function at u>, du)
        TimesDu(outer) == expr_mul(outer.a, outer.r, du)
        Negated(sin_u) ==
            LET Product(minus_one) == expr_mul(minus_one.a, minus_one.r, sin_u.r)
            IN  Product(expr_number(sin_u.a, <<"-", "1">>))
        Reciprocal(minus_one) == expr_pow(minus_one.a, u, minus_one.r)
    IN  CASE e.func = "SIN" -> TimesDu(expr_func(b, "COS", u))
          [] e.func = "COS" -> TimesDu(Negated(expr_func(b, "SIN", u)))
          [] e.func = "EXP" -> TimesDu(expr_func(b, "EXP", u))
          [] e.func = "LOG" -> TimesDu(Reciprocal(expr_number(b, <<"-", "1">>)))
          [] OTHER -> Ret(Exit(b, "exit: Unknown function in differentiation"), INVALID_INDEX)

expr_differentiate(a, idx, var_name) ==
    IF ~Running(a) THEN Ret(a, INVALID_INDEX)
    ELSE IF BadIndex(a, idx) THEN Ret(ExitIndex(a), INVALID_INDEX)
    ELSE LET e == expr_at(a, idx)
             \* return expr_add(a, left, right)
             Sum(left, right) == expr_add(right.a, left.r, right.r)
             AddRight(left) == Sum(left, expr_differentiate(left.a, e.right, var_name))
             \* left_term = expr_mul(a, df, g); right_term = expr_mul(a, f, dg)
             RightTerm(dg, left_term) == Sum(left_term, expr_mul(left_term.a, e.left, dg.r))
             LeftTerm(df, dg) == RightTerm(dg, expr_mul(dg.a, df.r, e.right))
             MulRight(df) == LeftTerm(df, expr_differentiate(df.a, e.right, var_name))
             Chain(du) == DifferentiateFunc(du.a, e, du.r)
         IN  CASE e.type = "NUMBER" -> expr_number(a, <<"0">>)
               [] e.type = "SYMBOL" ->
                    IF e.name = var_name THEN expr_number(a, <<"1">>)
                    ELSE expr_number(a, <<"0">>)
               [] e.type = "ADD" -> AddRight(expr_differentiate(a, e.left, var_name))
               [] e.type = "MUL" -> MulRight(expr_differentiate(a, e.left, var_name))
               [] e.type = "POW" -> DifferentiatePow(a, e, var_name)
               [] e.type = "FUNC" -> Chain(expr_differentiate(a, e.arg, var_name))
               [] OTHER ->
                    Ret(Exit(a, "exit: Unknown expression type in differentiation"),
                        INVALID_INDEX)

\* expr_print(a, idx) returns: expr_at accepts every index it visits
RECURSIVE Printable(_, _)
Printable(a, idx) ==
    IF BadIndex(a, idx) THEN FALSE
    ELSE LET e == expr_at(a, idx)
         IN  CASE e.type \in {"ADD", "MUL", "POW"} ->
                    Printable(a, e.left) /\ Printable(a, e.right)
               [] e.type = "FUNC" -> Printable(a, e.arg)
               [] e.type \in {"DIFF", "INT"} -> Printable(a, e.inner)
               [] OTHER -> TRUE

\* case EXPR_POW of expr_integrate, after "coeff = expr_div(a, one, new_exp)"
PowerRuleProduct(coeff, pow_expr) == expr_mul(coeff.a, coeff.r, pow_expr)

\* case EXPR_POW of expr_integrate, after "new_exp = expr_simplify(a, new_exp)"
PowerRuleTerm(new_exp, one, base) ==
    LET pow_expr == expr_pow(new_exp.a, base, new_exp.r)
    IN  PowerRuleProduct(expr_div(pow_expr.a, one, new_exp.r), pow_expr.r)

\* case EXPR_POW of expr_integrate: x^n -> 1/(n+1) * x^(n+1)
IntegratePow(a, e, var_name) ==
    LET base     == e.left
        exponent == e.right
        shape    == MonomialShape(a, base, exponent, var_name)
        one      == expr_number(a, <<"1">>)
        \* ExprIndex new_exp = expr_add(a, exponent, one)
        sum      == expr_add(one.a, exponent, one.r)
    IN  IF shape = "EXIT" THEN Ret(ExitIndex(a), INVALID_INDEX)
        ELSE IF shape = "YES" THEN PowerRuleTerm(SimplifyOf(sum), one.r, base)
        \* "Power rule for general expressions not implemented yet."
        ELSE Ret(a, INVALID_INDEX)

UnknownInIntegration(a) ==
    Ret(Exit(a, "exit: Unknown expression type in Integration"), INVALID_INDEX)

\* case EXPR_FUNC of expr_integrate: when the argument is not the Symbol
\* var_name, control falls out of the case into default
IntegrateFunc(a, e, var_name) ==
    LET u == e.arg
        Negated(cos_u) ==
            LET Product(minus_one) == expr_mul(minus_one.a, minus_one.r, cos_u.r)
            IN  Product(expr_number(cos_u.a, <<"-", "1">>))
        Reciprocal(minus_one) == expr_pow(minus_one.a, u, minus_one.r)
    IN  IF BadIndex(a, u) THEN Ret(ExitIndex(a), INVALID_INDEX)
        ELSE IF expr_type(a, u) = "SYMBOL" /\ expr_name(a, u) = var_name
        THEN CASE e.func = "SIN" -> Negated(expr_func(a, "COS", u))
               [] e.func = "COS" -> expr_func(a, "SIN", u)
               [] e.func = "EXP" -> expr_func(a, "EXP", u)
               [] e.func = "LOG" -> Reciprocal(expr_number(a, <<"-", "1">>))
               [] OTHER -> Ret(Exit(a, "exit: Unknown function in Integration"), INVALID_INDEX)
        ELSE UnknownInIntegration(a)

\* case EXPR_MUL as it would be if it pulled out the left factor, Number or not
IntegrateMulAnyLeft(a, e, var_name) ==
    LET Times(inner) == expr_mul(inner.a, e.left, inner.r)
    IN  IF BadIndex(a, e.left) THEN Ret(ExitIndex(a), INVALID_INDEX)
        ELSE Times(expr_integrate(a, e.right, var_name))

\* case EXPR_MUL of expr_integrate: only "number * g" is pulled out (the
\* branch for "f * number" is commented out in the source)
IntegrateMul(a, e, var_name) ==
    LET f == e.left
        g == e.right
        \* return expr_mul(a, f, inner)
        Times(inner) == expr_mul(inner.a, f, inner.r)
    IN  IF BadIndex(a, f) THEN Ret(ExitIndex(a), INVALID_INDEX)
        ELSE IF IsNumber(a, f) THEN Times(expr_integrate(a, g, var_name))
        \* product rule not implemented: "Couldn't resolve integration"
        ELSE Ret(a, INVALID_INDEX)

expr_integrate(a, idx, var_name) ==
    IF ~Running(a) THEN Ret(a, INVALID_INDEX)
    ELSE IF BadIndex(a, idx) THEN Ret(ExitIndex(a), INVALID_INDEX)
    ELSE LET e == expr_at(a, idx)
             \* return expr_mul(a, idx, expr_symbol(a, var_name))
             TimesVar(sym) == expr_mul(sym.a, idx, sym.r)
             \* expr_mul(a, expr_number(a, "1/2"),
             \*          expr_pow(a, expr_symbol(a, var_name), expr_number(a, "2")))
             HalfTimes(half, sq) == expr_mul(sq.a, half.r, sq.r)
             Squared(half, sym) ==
                 LET Pow(two) == HalfTimes(half, expr_pow(two.a, sym.r, two.r))
                 IN  Pow(expr_number(sym.a, <<"2">>))
             HalfSquare(half) == Squared(half, expr_symbol(half.a, var_name))
             \* return expr_add(a, left, right)
             Sum(left, right) == expr_add(right.a, left.r, right.r)
             AddRight(left) == Sum(left, expr_integrate(left.a, e.right, var_name))
             \* the break: expr_print(a, idx), then INVALID_INDEX
             Break(res) ==
                 IF Running(res.a) /\ res.r = INVALID_INDEX /\ ~IsNumber(a, e.left)
                    /\ ~Printable(a, idx)
                 THEN Ret(ExitIndex(a), INVALID_INDEX)
                 ELSE res
         IN  CASE e.type = "NUMBER" -> TimesVar(expr_symbol(a, var_name))
               [] e.type = "SYMBOL" ->
                    IF e.name = var_name
                    THEN HalfSquare(expr_number(a, <<"1", "/", "2">>))
                    ELSE TimesVar(expr_symbol(a, var_name))
               [] e.type = "ADD" -> AddRight(expr_integrate(a, e.left, var_name))
               [] e.type = "MUL" -> Break(IntegrateMul(a, e, var_name))
               [] e.type = "POW" -> IntegratePow(a, e, var_name)
               [] e.type = "FUNC" -> IntegrateFunc(a, e, var_name)
               [] OTHER -> UnknownInIntegration(a)

\* expr_div after "if (expr_equal(a, num, den))", Q the result of expr_equal
DivideOrInvert(a, num, den, Q) ==
    LET minus_one  == expr_number(a, <<"-", "1">>)
        reciprocal == expr_pow(minus_one.a, den, minus_one.r)
    IN  IF ~Running(Q.a) THEN Ret(Q.a, INVALID_INDEX)
        \* a / a = 1
        ELSE IF Q.r = 1 THEN expr_number(a, <<"1">>)
        \* both numeric -> directly divide; mpq_div by zero aborts
        ELSE IF IsNumber(a, num) /\ IsNumber(a, den)
        THEN IF mpq_sgn(expr_value(a, den)) = 0
             THEN Ret(Exit(a, "abort: division by zero"), INVALID_INDEX)
             ELSE expr_number_mpq(a, mpq_div(expr_value(a, num), expr_value(a, den)))
        \* a / b -> a * b^(-1)
        ELSE SimplifyOf(expr_mul(reciprocal.a, num, reciprocal.r))

expr_div(a, num, den) ==
    IF ~Running(a) THEN Ret(a, INVALID_INDEX)
    ELSE IF num = INVALID_INDEX \/ den = INVALID_INDEX THEN Ret(a, INVALID_INDEX)
    ELSE IF AnyBad(a, {num, den}) THEN Ret(ExitIndex(a), INVALID_INDEX)
    \* a / 1 = a
    ELSE IF IsNumberEq(a, den, 1) THEN Ret(a, num)
    \* 0 / b = 0
    ELSE IF IsNumber(a, num) /\ mpq_sgn(expr_value(a, num)) = 0
    THEN expr_number(a, <<"0">>)
    ELSE DivideOrInvert(a, num, den, expr_equal(a, num, den))

(***************************************************************************)
(* The state machine.  The caller builds nodes with the constructors,      *)
(* passing handles of occupied slots, and calls the core operations; the   *)
(* example programs run their statements in order.  After exit(1) nothing  *)
(* runs.                                                                   *)
(***************************************************************************)
Arena == [pool |-> pool, free_list |-> free_list, free_count |-> free_count,
          status |-> status]

Occupied == {i \in Slots : pool[i].used}

NoCall == [op |-> "init", idx |-> INVALID_INDEX, idx2 |-> INVALID_INDEX,
           var |-> "", ret |-> INVALID_INDEX]

Call(op, idx, idx2, var, ret) ==
    [op |-> op, idx |-> idx, idx2 |-> idx2, var |-> var, ret |-> ret]

\* the state after a call that returned R
Returned(R, op, idx, idx2, var) ==
    /\ pool' = R.a.pool
    /\ free_list' = R.a.free_list
    /\ free_count' = R.a.free_count
    /\ status' = R.a.status
    /\ last' = Call(op, idx, idx2, var, R.r)

LocalNames ==
    {"x", "x3", "sinx", "f", "df", "df_sim", "Sf", "Sf_sim", "Sdf", "Sdf_sim", "comp",
     "x2", "exp_x2", "h", "dh", "Sh", "r", "rs", "t", "ts", "held"}

\* the callers that make any bounded sequence of API calls
Callers == {"caller", "short caller"}

NodeLimit == IF pc = "caller" THEN MaxNodes ELSE FewNodes

\* the example programs, by the first statement of their main
Examples == {"calculus:26", "numbers:120"}

\* the programs linked with the library
Programs == {"caller"} \cup Examples

Init ==
    /\ pool = expr_arena_init.pool
    /\ free_list = expr_arena_init.free_list
    /\ free_count = expr_arena_init.free_count
    /\ status = expr_arena_init.status
    /\ last = NoCall
    /\ nops = 0
    /\ pc \in Programs
    /\ loc = [n \in LocalNames |-> INVALID_INDEX]

\* the example programs and the short caller
InitExamples ==
    /\ pool = expr_arena_init.pool
    /\ free_list = expr_arena_init.free_list
    /\ free_count = expr_arena_init.free_count
    /\ status = expr_arena_init.status
    /\ last = NoCall
    /\ nops = 0
    /\ pc \in {"short caller"} \cup Examples
    /\ loc = [n \in LocalNames |-> INVALID_INDEX]

\* the caller is still building its expression
Building ==
    /\ pc \in Callers
    /\ status = RUN
    /\ nops = 0
    /\ MAX_EXPR_COUNT - free_count < NodeLimit

Operating ==
    /\ pc \in Callers
    /\ status = RUN
    /\ nops < MaxOps

NewNumber ==
    /\ Building
    /\ \E lit \in Literals :
         Returned(expr_number(Arena, lit), "number", INVALID_INDEX, INVALID_INDEX, "")
    /\ UNCHANGED <<nops, pc, loc>>

NewSymbol ==
    /\ Building
    /\ \E name \in Names :
         Returned(expr_symbol(Arena, name), "symbol", INVALID_INDEX, INVALID_INDEX, name)
    /\ UNCHANGED <<nops, pc, loc>>

NewAdd ==
    /\ Building
    /\ \E l \in Occupied, r \in Occupied :
         Returned(expr_add(Arena, l, r), "add", l, r, "")
    /\ UNCHANGED <<nops, pc, loc>>

NewMul ==
    /\ Building
    /\ \E l \in Occupied, r \in Occupied :
         Returned(expr_mul(Arena, l, r), "mul", l, r, "")
    /\ UNCHANGED <<nops, pc, loc>>

NewPow ==
    /\ Building
    /\ \E l \in Occupied, r \in Occupied :
         Returned(expr_pow(Arena, l, r), "pow", l, r, "")
    /\ UNCHANGED <<nops, pc, loc>>

NewFunc ==
    /\ Building
    /\ \E f \in FuncTypes, arg \in Occupied :
         Returned(expr_func(Arena, f, arg), "func", arg, INVALID_INDEX, f)
    /\ UNCHANGED <<nops, pc, loc>>

NewDiff ==
    /\ Building
    /\ \E e \in Occupied, var \in VarNames :
         Returned(expr_diff(Arena, e, var), "diff", e, INVALID_INDEX, var)
    /\ UNCHANGED <<nops, pc, loc>>

NewInt ==
    /\ Building
    /\ \E e \in Occupied, var \in VarNames :
         Returned(expr_int(Arena, e, var), "int", e, INVALID_INDEX, var)
    /\ UNCHANGED <<nops, pc, loc>>

\* the expression the caller holds: the handle its last call returned.  Every
\* expression is the value of the call that built it, so the operations below
\* meet every tree the constructors can build.
Current ==
    IF last.op \notin {"equal", "eval_numeric"} /\ last.ret \in Occupied
    THEN {last.ret} ELSE {}

Simplify ==
    /\ Operating
    /\ \E e \in Current :
         Returned(expr_simplify(Arena, e), "simplify", e, INVALID_INDEX, "")
    /\ nops' = nops + 1
    /\ UNCHANGED <<pc, loc>>

Differentiate ==
    /\ Operating
    /\ \E e \in Current, var \in VarNames :
         Returned(expr_differentiate(Arena, e, var), "differentiate", e, INVALID_INDEX, var)
    /\ nops' = nops + 1
    /\ UNCHANGED <<pc, loc>>

Integrate ==
    /\ Operating
    /\ \E e \in Current, var \in VarNames :
         Returned(expr_integrate(Arena, e, var), "integrate", e, INVALID_INDEX, var)
    /\ nops' = nops + 1
    /\ UNCHANGED <<pc, loc>>

\* any expression of the arena compared with the held one
Equal ==
    /\ Operating
    /\ \E x \in Occupied, y \in Current :
         Returned(expr_equal(Arena, x, y), "equal", x, y, "")
    /\ nops' = nops + 1
    /\ UNCHANGED <<pc, loc>>

\* the symbol a caller substitutes and the literal it substitutes for it
SubstNames == {"x"}

SubstValues == { <<"2", "/", "4">> }

Substitute ==
    /\ Operating
    /\ \E e \in Current, name \in SubstNames, value \in SubstValues :
         Returned(expr_substitute(Arena, e, name, value), "substitute", e, INVALID_INDEX, name)
    /\ nops' = nops + 1
    /\ UNCHANGED <<pc, loc>>

EvalNumeric ==
    /\ Operating
    /\ \E e \in Current :
         Returned(expr_eval_numeric(Arena, e), "eval_numeric", e, INVALID_INDEX, "")
    /\ nops' = nops + 1
    /\ UNCHANGED <<pc, loc>>

(***************************************************************************)
(* The example programs: one action per statement that calls the library.  *)
(* The statement at pc = at leaves its value R.r in the local name and     *)
(* goes to next, unless the library has ended the process.                 *)
(***************************************************************************)
Statement(at, next, R, name) ==
    /\ pc = at
    /\ status = RUN
    /\ Returned(R, at, INVALID_INDEX, INVALID_INDEX, name)
    /\ pc' = IF Running(R.a) THEN next ELSE pc
    /\ loc' = IF Running(R.a) THEN [loc EXCEPT ![name] = R.r] ELSE loc
    /\ UNCHANGED nops

\* expr_pow(&a, base, expr_number(&a, lit))
PowOfLiteral(a, base, lit) ==
    LET Pow(n) == expr_pow(n.a, base, n.r)
    IN  Pow(expr_number(a, lit))

\* main of "Symbolic differentiation and integration", first block
Calculus26 == Statement("calculus:26", "calculus:27", expr_symbol(Arena, "x"), "x")

Calculus27 ==
    Statement("calculus:27", "calculus:28", PowOfLiteral(Arena, loc["x"], <<"3">>), "x3")

Calculus28 ==
    Statement("calculus:28", "calculus:29", expr_func(Arena, "SIN", loc["x"]), "sinx")

Calculus29 ==
    Statement("calculus:29", "calculus:34", expr_add(Arena, loc["x3"], loc["sinx"]), "f")

Calculus34 ==
    Statement("calculus:34", "calculus:35", expr_diff(Arena, loc["f"], "x"), "df")

Calculus35 ==
    Statement("calculus:35", "calculus:44", expr_simplify(Arena, loc["df"]), "df_sim")

Calculus44 ==
    Statement("calculus:44", "calculus:45", expr_int(Arena, loc["f"], "x"), "Sf")

Calculus45 ==
    Statement("calculus:45", "calculus:53", expr_simplify(Arena, loc["Sf"]), "Sf_sim")

Calculus53 ==
    Statement("calculus:53", "calculus:54", expr_int(Arena, loc["df"], "x"), "Sdf")

Calculus54 ==
    Statement("calculus:54", "calculus:58", expr_simplify(Arena, loc["Sdf"]), "Sdf_sim")

Calculus58 ==
    Statement("calculus:58", "calculus:66",
              expr_equal(Arena, loc["f"], loc["Sdf_sim"]), "comp")

\* second block, "Nested expressions"
Calculus66 == Statement("calculus:66", "calculus:67", expr_symbol(Arena, "x"), "x")

Calculus67 ==
    Statement("calculus:67", "calculus:68", PowOfLiteral(Arena, loc["x"], <<"2">>), "x2")

Calculus68 ==
    Statement("calculus:68", "calculus:69", expr_func(Arena, "EXP", loc["x2"]), "exp_x2")

Calculus69 ==
    Statement("calculus:69", "calculus:70", expr_func(Arena, "SIN", loc["x"]), "sinx")

Calculus70 ==
    Statement("calculus:70", "calculus:76",
              expr_mul(Arena, loc["sinx"], loc["exp_x2"]), "h")

Calculus76 ==
    Statement("calculus:76", "calculus:82",
              SimplifyOf(expr_diff(Arena, loc["h"], "x")), "dh")

Calculus82 ==
    Statement("calculus:82", "calculus:92",
              SimplifyOf(expr_int(Arena, loc["h"], "x")), "Sh")

\* expr_add(&a, expr_number(&a, l), expr_number(&a, r)), and the same of mul
AddOfLiterals(a, l, r) ==
    LET Right(n) ==
            LET Add(m) == expr_add(m.a, n.r, m.r)
            IN  Add(expr_number(n.a, r))
    IN  Right(expr_number(a, l))

MulOfLiterals(a, l, r) ==
    LET Right(n) ==
            LET Mul(m) == expr_mul(m.a, n.r, m.r)
            IN  Mul(expr_number(n.a, r))
    IN  Right(expr_number(a, l))

\* expr_mul(&a, s, expr_number(&a, lit)), s the result of the call in its argument
TimesLiteral(s, lit) ==
    LET Mul(n) == expr_mul(n.a, s.r, n.r)
    IN  Mul(expr_number(s.a, lit))

\* main of "Number arithmetic"
Numbers120 ==
    Statement("numbers:120", "numbers:123", AddOfLiterals(Arena, <<"3">>, <<"5">>), "r")

Numbers123 ==
    Statement("numbers:123", "numbers:128", expr_simplify(Arena, loc["r"]), "rs")

Numbers128 ==
    Statement("numbers:128", "numbers:131",
              TimesLiteral(AddOfLiterals(Arena, <<"3">>, <<"-", "7", "/", "2", "0">>),
                           <<"5">>), "t")

Numbers131 ==
    Statement("numbers:131", "numbers:136", expr_simplify(Arena, loc["t"]), "ts")

Numbers136 ==
    Statement("numbers:136", "numbers:139",
              TimesLiteral(MulOfLiterals(Arena, <<"3">>, <<"-", "7", "/", "2", "0">>),
                           <<"5">>), "t")

Numbers139 ==
    Statement("numbers:139", "numbers:144", expr_simplify(Arena, loc["t"]), "ts")

Next ==
    \/ NewNumber \/ NewSymbol \/ NewAdd \/ NewMul \/ NewPow \/ NewFunc \/ NewDiff \/ NewInt
    \/ Simplify \/ Differentiate \/ Integrate \/ Equal \/ Substitute \/ EvalNumeric
    \/ Calculus26 \/ Calculus27 \/ Calculus28 \/ Calculus29 \/ Calculus34 \/ Calculus35
    \/ Calculus44 \/ Calculus45 \/ Calculus53 \/ Calculus54 \/ Calculus58
    \/ Calculus66 \/ Calculus67 \/ Calculus68 \/ Calculus69 \/ Calculus70
    \/ Calculus76 \/ Calculus82
    \/ Numbers120 \/ Numbers123 \/ Numbers128 \/ Numbers131 \/ Numbers136 \/ Numbers139

Spec == Init /\ [][Next]_vars

SpecExamples == InitExamples /\ [][Next]_vars

(***************************************************************************)
(* Two callers of the arena itself.  The caller at pc = "arena" keeps at   *)
(* most MaxHandles slots occupied: it allocates, frees, clears and         *)
(* initialises again, reads slots with expr_at, compares with expr_equal   *)
(* and builds Symbol and Add nodes.  The caller at pc = "filler" only      *)
(* allocates and releases: it may fill the arena before and after its      *)
(* first release, and makes a later release while few slots are occupied.  *)
(* The handles they pass are INVALID_INDEX, MAX_EXPR_COUNT or the first    *)
(* MaxHandles indices, whether their slots are occupied or free.  nops     *)
(* counts a caller's calls of free, clear and init.  A caller keeps one of *)
(* the handles expr_arena_alloc has returned to it in its local held,      *)
(* until it frees that handle or clears the arena.                         *)
(***************************************************************************)
\* handles of slots the arena caller passes
MaxHandles == 3

\* calls of expr_arena_free, expr_arena_clear and expr_arena_init per run
MaxFrees == 2

Handles == 0..(MaxHandles - 1)

ArenaCallers == {"arena", "filler"}

InitArena ==
    /\ pool = expr_arena_init.pool
    /\ free_list = expr_arena_init.free_list
    /\ free_count = expr_arena_init.free_count
    /\ status = expr_arena_init.status
    /\ last = NoCall
    /\ nops = 0
    /\ pc \in ArenaCallers
    /\ loc = [n \in LocalNames |-> INVALID_INDEX]

ArenaRunning == pc \in ArenaCallers /\ status = RUN

\* the caller may allocate a slot
Allocating ==
    /\ ArenaRunning
    /\ \/ MAX_EXPR_COUNT - free_count < MaxHandles
       \/ pc = "filler" /\ nops <= 1

\* the caller may release a slot
Releasing ==
    /\ ArenaRunning
    /\ nops < MaxFrees
    /\ \/ MAX_EXPR_COUNT - free_count <= MaxHandles
       \/ pc = "filler" /\ nops = 0

\* the caller may build a node
ArenaBuilding == Allocating /\ pc = "arena"

\* the caller may read a slot
Reading == ArenaRunning /\ pc = "arena"

\* a call that returns nothing and leaves the arena A
Done(A, op, idx) == Returned(Ret(A, INVALID_INDEX), op, idx, INVALID_INDEX, "")

\* the caller keeps the handle r in held, or keeps what it holds
Keeping(r) ==
    IF r \in Handles THEN {loc, [loc EXCEPT !["held"] = r]} ELSE {loc}

\* the caller has released the handle it held
Forgetting == [loc EXCEPT !["held"] = INVALID_INDEX]

ArenaAlloc ==
    /\ Allocating
    /\ Returned(expr_arena_alloc(Arena), "alloc", INVALID_INDEX, INVALID_INDEX, "")
    /\ loc' \in Keeping(last'.ret)
    /\ UNCHANGED <<nops, pc>>

ArenaFree ==
    /\ Releasing
    /\ \E h \in Handles \cup {INVALID_INDEX} :
         /\ Done(expr_arena_free(Arena, h), "free", h)
         /\ loc' = IF h = loc["held"] THEN Forgetting ELSE loc
    /\ nops' = nops + 1
    /\ UNCHANGED pc

ArenaClear ==
    /\ Releasing
    /\ Done(expr_arena_clear(Arena), "clear", INVALID_INDEX)
    /\ loc' = Forgetting
    /\ nops' = nops + 1
    /\ UNCHANGED pc

ArenaInit ==
    /\ Releasing
    /\ Done(expr_arena_init_again(Arena), "init", INVALID_INDEX)
    /\ nops' = nops + 1
    /\ UNCHANGED <<pc, loc>>

\* expr_at returns the address of the slot, or ends the process
ArenaAt ==
    /\ Reading
    /\ \E h \in Handles \cup {INVALID_INDEX, MAX_EXPR_COUNT} :
         Returned(IF BadIndex(Arena, h) THEN Ret(ExitIndex(Arena), INVALID_INDEX)
                  ELSE Ret(Arena, h),
                  "at", h, INVALID_INDEX, "")
    /\ UNCHANGED <<nops, pc, loc>>

\* the data of a node of the type, as its constructor writes it
Fields(type) ==
    CASE type = "NUMBER" -> {"value"}
      [] type = "SYMBOL" -> {"name"}
      [] type \in {"ADD", "MUL", "POW"} -> {"left", "right"}
      [] type = "FUNC" -> {"func", "arg"}
      [] type \in {"DIFF", "INT"} -> {"inner", "var"}
      [] OTHER -> {"none"}

\* every occupied slot holds a node that a constructor wrote: expr_equal reads
\* no slot that expr_arena_alloc returned to the caller himself
AllWritten == \A i \in Occupied : Fields(pool[i].type) \subseteq DOMAIN pool[i]

ArenaEqual ==
    /\ Reading
    /\ AllWritten
    /\ \E x \in Handles, y \in Handles :
         Returned(expr_equal(Arena, x, y), "equal", x, y, "")
    /\ UNCHANGED <<nops, pc, loc>>

ArenaSymbol ==
    /\ ArenaBuilding
    /\ \E name \in VarNames :
         Returned(expr_symbol(Arena, name), "symbol", INVALID_INDEX, INVALID_INDEX, name)
    /\ UNCHANGED <<nops, pc, loc>>

ArenaAdd ==
    /\ ArenaBuilding
    /\ \E l \in Occupied, r \in Occupied :
         Returned(expr_add(Arena, l, r), "add", l, r, "")
    /\ UNCHANGED <<nops, pc, loc>>

NextArena ==
    \/ ArenaAlloc \/ ArenaFree \/ ArenaClear \/ ArenaInit
    \/ ArenaAt \/ ArenaEqual \/ ArenaSymbol \/ ArenaAdd

SpecArena == InitArena /\ [][NextArena]_vars

(***************************************************************************)
(* Expressions as trees, for the properties below: the unfolding of a      *)
(* handle, whatever slots its nodes occupy.                                *)
(***************************************************************************)
NoTree == [type |-> "INVALID"]

RECURSIVE Tree(_, _)
Tree(a, idx) ==
    IF BadIndex(a, idx) THEN NoTree
    ELSE LET e == a.pool[idx]
         IN  CASE e.type = "NUMBER" -> [type |-> "NUMBER", value |-> e.value]
               [] e.type = "SYMBOL" -> [type |-> "SYMBOL", name |-> e.name]
               [] e.type \in {"ADD", "MUL", "POW"} ->
                    [type |-> e.type, left |-> Tree(a, e.left), right |-> Tree(a, e.right)]
               [] e.type = "FUNC" ->
                    [type |-> "FUNC", func |-> e.func, arg |-> Tree(a, e.arg)]
               [] e.type \in {"DIFF", "INT"} ->
                    [type |-> e.type, var |-> e.var, inner |-> Tree(a, e.inner)]
               [] OTHER -> NoTree

Num(n, d) == [type |-> "NUMBER", value |-> <<n, d>>]

Sym(name) == [type |-> "SYMBOL", name |-> name]

Bin(t, l, r) == [type |-> t, left |-> l, right |-> r]

Fn(f, arg) == [type |-> "FUNC", func |-> f, arg |-> arg]

Deferred(t, var, inner) == [type |-> t, var |-> var, inner |-> inner]

\* every node under idx is a Number, Symbol, Add, Mul, Pow or Call of valid children
RECURSIVE Plain(_, _)
Plain(a, idx) ==
    /\ ~BadIndex(a, idx)
    /\ LET e == a.pool[idx]
       IN  CASE e.type \in {"NUMBER", "SYMBOL"} -> TRUE
             [] e.type \in {"ADD", "MUL", "POW"} -> Plain(a, e.left) /\ Plain(a, e.right)
             [] e.type = "FUNC" -> Plain(a, e.arg)
             [] OTHER -> FALSE

\* every node under idx is a node of valid children
RECURSIVE Whole(_, _)
Whole(a, idx) ==
    /\ ~BadIndex(a, idx)
    /\ LET e == a.pool[idx]
       IN  CASE e.type \in {"NUMBER", "SYMBOL"} -> TRUE
             [] e.type \in {"ADD", "MUL", "POW"} -> Whole(a, e.left) /\ Whole(a, e.right)
             [] e.type = "FUNC" -> Whole(a, e.arg)
             [] e.type \in {"DIFF", "INT"} -> Whole(a, e.inner)
             [] OTHER -> FALSE

\* this step is a caller's call of the core operation op; its argument is last'.idx
Called(op) == nops' = nops + 1 /\ last'.op = op

\* C1: idempotence of expr_simplify.  Whenever simplify has returned s for a
\* well-formed expression over Number, Symbol, Add, Mul, Pow and Call, a second
\* simplify, of s, returns an expression that expr_equal finds equal to s.
C1_SimplifyIdempotent ==
    (last.op = "simplify" /\ status = RUN /\ Plain(Arena, last.idx)) =>
        LET again == expr_simplify(Arena, last.ret)
        IN  /\ Running(again.a)
            /\ expr_equal(again.a, again.r, last.ret).r = 1

\* the recursion of expr_differentiate over idx reaches a Pow that is not
\* Symbol(var)^Number
RECURSIVE MeetsOtherPow(_, _, _)
MeetsOtherPow(a, idx, var) ==
    /\ ~BadIndex(a, idx)
    /\ LET e == a.pool[idx]
       IN  CASE e.type \in {"ADD", "MUL"} ->
                    MeetsOtherPow(a, e.left, var) \/ MeetsOtherPow(a, e.right, var)
             [] e.type = "POW" -> MonomialShape(a, e.left, e.right, var) = "NO"
             [] e.type = "FUNC" -> MeetsOtherPow(a, e.arg, var)
             [] OTHER -> FALSE

\* C2: the derivative fallback is recoverable.  In every call of simplify on
\* Derivative(e, var) where the differentiator meets, in simplify(e), a Pow
\* outside the monomial shape (at the top or under Add, Mul or Call),
\* expr_differentiate returns the invalid handle and the process runs on, and
\* simplify returns a Derivative node that wraps simplify(e).
C2_Step ==
    LET d == pool[last'.idx]
        s == expr_simplify(Arena, d.inner)
        attempted == expr_differentiate(s.a, s.r, d.var)
    IN  (/\ Called("simplify")
         /\ d.type = "DIFF"
         /\ Running(s.a)
         /\ MeetsOtherPow(s.a, s.r, d.var)) =>
            /\ Running(attempted.a)
            /\ attempted.r = INVALID_INDEX
            /\ status' = RUN
            /\ Tree(Arena', last'.ret) = Deferred("DIFF", d.var, Tree(s.a, s.r))

\* C2: every step keeps the derivative fallback recoverable
C2_DerivativeFallback == [][C2_Step]_vars

\* the recursion of expr_integrate over idx reaches a product whose left
\* factor is no Number, or a Pow that is not Symbol(var)^Number
RECURSIVE MeetsNoRule(_, _, _)
MeetsNoRule(a, idx, var) ==
    /\ ~BadIndex(a, idx)
    /\ LET e == a.pool[idx]
       IN  CASE e.type = "ADD" ->
                    MeetsNoRule(a, e.left, var) \/ MeetsNoRule(a, e.right, var)
             [] e.type = "MUL" ->
                    IF BadIndex(a, e.left) THEN FALSE
                    ELSE IF IsNumber(a, e.left) THEN MeetsNoRule(a, e.right, var)
                    ELSE TRUE
             [] e.type = "POW" -> MonomialShape(a, e.left, e.right, var) = "NO"
             [] OTHER -> FALSE

\* a Call whose argument is not the Symbol var
CallOfOther(a, idx, var) ==
    /\ ~BadIndex(a, idx)
    /\ a.pool[idx].type = "FUNC"
    /\ ~BadIndex(a, a.pool[idx].arg)
    /\ ~(expr_type(a, a.pool[idx].arg) = "SYMBOL" /\ expr_name(a, a.pool[idx].arg) = var)

\* the recursion of expr_integrate over idx reaches a Call of another
\* argument than var, or a deferred node
RECURSIVE MeetsCallOrDeferred(_, _, _)
MeetsCallOrDeferred(a, idx, var) ==
    /\ ~BadIndex(a, idx)
    /\ LET e == a.pool[idx]
       IN  CASE e.type = "ADD" ->
                    MeetsCallOrDeferred(a, e.left, var) \/ MeetsCallOrDeferred(a, e.right, var)
             [] e.type = "MUL" ->
                    /\ ~BadIndex(a, e.left)
                    /\ IsNumber(a, e.left)
                    /\ MeetsCallOrDeferred(a, e.right, var)
             [] e.type = "FUNC" -> CallOfOther(a, idx, var)
             [] e.type \in {"DIFF", "INT"} -> TRUE
             [] OTHER -> FALSE

\* C3: the integral fallback is recoverable for nested terms.  In every call
\* of simplify on Integral(e, var) where the integrator visits, in simplify(e),
\* a term without a rule (a product with no Number on the left, a Pow outside
\* the monomial shape), also under an Add or a Number-coefficient Mul,
\* expr_integrate returns the invalid handle and the process runs on, and
\* simplify returns an Integral node that wraps simplify(e).
C3_Step ==
    LET d == pool[last'.idx]
        s == expr_simplify(Arena, d.inner)
        attempted == expr_integrate(s.a, s.r, d.var)
    IN  (/\ Called("simplify")
         /\ d.type = "INT"
         /\ Running(s.a)
         /\ MeetsNoRule(s.a, s.r, d.var)
         /\ ~MeetsCallOrDeferred(s.a, s.r, d.var)) =>
            /\ Running(attempted.a)
            /\ attempted.r = INVALID_INDEX
            /\ status' = RUN
            /\ Tree(Arena', last'.ret) = Deferred("INT", d.var, Tree(s.a, s.r))

\* C3: every step keeps the integral fallback recoverable
C3_IntegralFallback == [][C3_Step]_vars

\* C4: the integral of a Call of another argument than the variable is
\* unresolved.  expr_integrate(Call(fn, arg), var) with arg not Symbol(var)
\* returns the invalid handle and the process runs on; simplify of
\* Integral(e, var) whose simplify(e) is such a Call returns the Integral node
\* that wraps it.
C4_Step ==
    LET d == pool[last'.idx]
        s == expr_simplify(Arena, d.inner)
    IN  /\ (Called("integrate") /\ CallOfOther(Arena, last'.idx, last'.var)) =>
               (status' = RUN /\ last'.ret = INVALID_INDEX)
        /\ (/\ Called("simplify")
            /\ d.type = "INT"
            /\ Running(s.a)
            /\ CallOfOther(s.a, s.r, d.var)) =>
               /\ status' = RUN
               /\ Tree(Arena', last'.ret) = Deferred("INT", d.var, Tree(s.a, s.r))

\* C4: every step leaves the integral of a Call of another argument unresolved
C4_CallOfOtherUnresolved == [][C4_Step]_vars

\* a product of two expressions neither of which is a Number
ProductOfOthers(a, idx) ==
    /\ Whole(a, idx)
    /\ a.pool[idx].type = "MUL"
    /\ ~IsNumber(a, a.pool[idx].left)
    /\ ~IsNumber(a, a.pool[idx].right)

\* the product h of the second block of the calculus example
NestedProduct ==
    Bin("MUL", Fn("SIN", Sym("x")), Fn("EXP", Bin("POW", Sym("x"), Num(2, 1))))

\* statement 82 of the calculus example leaves Integral(h, x) in Sh
NestedStaysDeferred ==
    (pc = "calculus:82" /\ pc' = "calculus:92") =>
        /\ Tree(Arena, loc["h"]) = NestedProduct
        /\ Tree(Arena', loc'["Sh"]) = Deferred("INT", "x", NestedProduct)

\* expr_integrate on a product of two factors that are no Numbers returns the
\* invalid handle, allocates nothing and leaves the process running
ProductUnresolved ==
    (Called("integrate") /\ ProductOfOthers(Arena, last'.idx)) =>
        /\ status' = RUN
        /\ last'.ret = INVALID_INDEX
        /\ free_count' = free_count

\* C5 as stated: the unresolved boundary.  expr_integrate(Mul(f, g), var) with
\* neither f nor g a Number returns the invalid handle without building
\* anything, and simplify(Integral(Mul(f, g), var)) returns an Integral node
\* whose inner expression is simplify(Mul(f, g)).
C5_StatedStep ==
    LET d == pool[last'.idx]
        s == expr_simplify(Arena, d.inner)
    IN  /\ ProductUnresolved
        /\ NestedStaysDeferred
        /\ (/\ Called("simplify")
            /\ d.type = "INT"
            /\ ProductOfOthers(Arena, d.inner)
            /\ Running(s.a)) =>
               /\ status' = RUN
               /\ Tree(Arena', last'.ret) = Deferred("INT", d.var, Tree(s.a, s.r))

\* C5 as stated: every step leaves the integral of a product of non-Numbers deferred
C5_UnresolvedProductAsStated == [][C5_StatedStep]_vars

\* C5, amended: expr_integrate(Mul(f, g), var) with neither f nor g a Number
\* returns the invalid handle without building anything, and
\* simplify(Integral(Mul(f, g), var)) returns an Integral node whose inner
\* expression is simplify(Mul(f, g)) whenever simplify(Mul(f, g)) is still a
\* product whose left factor is not a Number.
C5_AmendedStep ==
    LET d == pool[last'.idx]
        s == expr_simplify(Arena, d.inner)
    IN  /\ ProductUnresolved
        /\ NestedStaysDeferred
        /\ (/\ Called("simplify")
            /\ d.type = "INT"
            /\ ProductOfOthers(Arena, d.inner)
            /\ Running(s.a)
            /\ expr_type(s.a, s.r) = "MUL"
            /\ ~IsNumber(s.a, expr_left(s.a, s.r))) =>
               /\ status' = RUN
               /\ Tree(Arena', last'.ret) = Deferred("INT", d.var, Tree(s.a, s.r))

\* C5, amended: every step leaves the integral of a product that simplify keeps deferred
C5_UnresolvedProduct == [][C5_AmendedStep]_vars

\* simplify has returned Integral(x * y, x) for Integral(x * y, x)
C5_Witness ==
    /\ last.op = "simplify"
    /\ status = RUN
    /\ Tree(Arena, last.idx) = Deferred("INT", "x", Bin("MUL", Sym("x"), Sym("y")))
    /\ Tree(Arena, last.ret) = Deferred("INT", "x", Bin("MUL", Sym("x"), Sym("y")))

\* C6: expr_integrate(Mul(f, g), var) is resolved exactly when one of f, g is
\* a Number, on either side.  With a Number factor and the other factor
\* integrable the result is the product of the Number and the integral of the
\* other factor; with no Number factor the result is the invalid handle.
C6_Step ==
    LET d == pool[last'.idx]
        c == IF IsNumber(Arena, d.left) THEN d.left ELSE d.right
        other == IF IsNumber(Arena, d.left) THEN d.right ELSE d.left
        inner == expr_integrate(Arena, other, last'.var)
    IN  (/\ Called("integrate")
         /\ d.type = "MUL"
         /\ ~AnyBad(Arena, {d.left, d.right})) =>
            IF IsNumber(Arena, d.left) \/ IsNumber(Arena, d.right)
            THEN (Running(inner.a) /\ Whole(inner.a, inner.r)) =>
                     /\ status' = RUN
                     /\ Tree(Arena', last'.ret) \in
                            { Bin("MUL", Tree(Arena, c), Tree(inner.a, inner.r)),
                              Bin("MUL", Tree(inner.a, inner.r), Tree(Arena, c)) }
            ELSE status' = RUN /\ last'.ret = INVALID_INDEX

\* C6: every step resolves a product with a Number factor on either side
C6_ProductWithNumber == [][C6_Step]_vars

\* f of the calculus example, and its derivative in simplified form
CubePlusSine == Bin("ADD", Bin("POW", Sym("x"), Num(3, 1)), Fn("SIN", Sym("x")))

DerivativeOfCubePlusSine ==
    Bin("ADD", Bin("MUL", Num(3, 1), Bin("POW", Sym("x"), Num(2, 1))), Fn("COS", Sym("x")))

\* the statements of the first block of the calculus example, and its end
FirstBlock ==
    {"calculus:26", "calculus:27", "calculus:28", "calculus:29", "calculus:34",
     "calculus:35", "calculus:44", "calculus:45", "calculus:53", "calculus:54",
     "calculus:58", "calculus:66"}

\* C7: the round trip of the fundamental theorem.  The first block of the
\* calculus example runs to its end; there f = x^3 + sin(x), the simplified
\* Derivative(f, x) is 3 * x^2 + cos(x), simplify of Integral(Derivative(f, x), x)
\* on the unsimplified derivative node is equal to f, by expr_equal and as a
\* tree, and so is simplify of the Integral of the simplified derivative.
C7_RoundTrip ==
    /\ pc \in FirstBlock => status = RUN
    /\ pc = "calculus:66" =>
         LET back == SimplifyOf(expr_int(Arena, loc["df_sim"], "x"))
         IN  /\ Tree(Arena, loc["f"]) = CubePlusSine
             /\ Tree(Arena, loc["df"]) = Deferred("DIFF", "x", CubePlusSine)
             /\ Tree(Arena, loc["df_sim"]) = DerivativeOfCubePlusSine
             /\ Tree(Arena, loc["Sdf"]) =
                    Deferred("INT", "x", Deferred("DIFF", "x", CubePlusSine))
             /\ Tree(Arena, loc["Sdf_sim"]) = CubePlusSine
             /\ loc["comp"] = 1
             /\ Running(back.a)
             /\ Tree(back.a, back.r) = CubePlusSine
             /\ expr_equal(back.a, back.r, loc["f"]).r = 1

\* the first block has run and found the round trip equal to f
C7_Witness ==
    /\ pc = "calculus:66"
    /\ status = RUN
    /\ loc["comp"] = 1
    /\ Tree(Arena, loc["Sdf_sim"]) = CubePlusSine

\* simplify(Add(Derivative(a, var), Derivative(b, var))), built in arena st
\* for the sum Add(a, b) at idx
SumOfDerivatives(st, idx, var) ==
    LET da  == expr_diff(st, expr_left(st, idx), var)
        db  == expr_diff(da.a, expr_right(st, idx), var)
        sum == expr_add(db.a, da.r, db.r)
    IN  expr_simplify(sum.a, sum.r)

\* C8: linearity of differentiation under simplify.  In every call of
\* simplify on Derivative(Add(a, b), x), the call returns, and so does
\* simplify(Add(Derivative(a, x), Derivative(b, x))), and the two results
\* unfold to the same tree.
C8_Step ==
    LET d == pool[last'.idx]
        termwise == SumOfDerivatives(Arena, d.inner, d.var)
    IN  (/\ Called("simplify")
         /\ d.type = "DIFF"
         /\ expr_type(Arena, d.inner) = "ADD") =>
            /\ status' = RUN
            /\ Running(termwise.a)
            /\ Tree(Arena', last'.ret) = Tree(termwise.a, termwise.r)

\* C8: every step differentiates a sum as the sum of the derivatives
C8_Linearity == [][C8_Step]_vars

\* an Add/Mul tree whose leaves are all Numbers
RECURSIVE NumberTree(_, _)
NumberTree(a, idx) ==
    /\ ~BadIndex(a, idx)
    /\ LET e == a.pool[idx]
       IN  CASE e.type = "NUMBER" -> TRUE
             [] e.type \in {"ADD", "MUL"} -> NumberTree(a, e.left) /\ NumberTree(a, e.right)
             [] OTHER -> FALSE

\* the value of a NumberTree as a fraction that is not reduced
RECURSIVE Exact(_, _)
Exact(a, idx) ==
    LET e == a.pool[idx]
        l == Exact(a, e.left)
        r == Exact(a, e.right)
    IN  CASE e.type = "NUMBER" -> e.value
          [] e.type = "ADD" -> <<l[1] * r[2] + r[1] * l[2], l[2] * r[2]>>
          [] e.type = "MUL" -> <<l[1] * r[1], l[2] * r[2]>>

SameRational(p, q) == p[1] * q[2] = q[1] * p[2]

\* positive denominator, and no common divisor but 1
LowestTerms(q) ==
    /\ q[2] > 0
    /\ \A k \in 2..q[2] : ~(q[1] % k = 0 /\ q[2] % k = 0)

NumbersExample == {"numbers:120", "numbers:123", "numbers:128", "numbers:131",
                   "numbers:136", "numbers:139", "numbers:144"}

\* C9: exactness.  simplify of an Add/Mul tree whose leaves are all Numbers
\* returns a Number node whose value is the exact sum/product, in lowest
\* terms with a positive denominator; in the numbers example
\* simplify(Add(3, -7/20)) is 53/20 and simplify(Mul(Mul(3, -7/20), 5)) is -21/4.
C9_Exactness ==
    /\ (last.op = "simplify" /\ NumberTree(Arena, last.idx)) =>
         /\ status = RUN
         /\ ~BadIndex(Arena, last.ret)
         /\ IsNumber(Arena, last.ret)
         /\ LowestTerms(expr_value(Arena, last.ret))
         /\ SameRational(expr_value(Arena, last.ret), Exact(Arena, last.idx))
    /\ pc \in NumbersExample => status = RUN
    /\ pc = "numbers:131" =>
         LET sum == expr_simplify(Arena, expr_left(Arena, loc["t"]))
         IN  /\ Tree(Arena, loc["t"]) =
                    Bin("MUL", Bin("ADD", Num(3, 1), Num(-7, 20)), Num(5, 1))
             /\ Running(sum.a)
             /\ Tree(sum.a, sum.r) = Num(53, 20)
    /\ pc = "numbers:144" =>
         /\ Tree(Arena, loc["t"]) =
                Bin("MUL", Bin("MUL", Num(3, 1), Num(-7, 20)), Num(5, 1))
         /\ Tree(Arena, loc["ts"]) = Num(-21, 4)

\* simplify has returned -1/4 for (1/2 + -1) * 1/2
C9_Witness ==
    /\ last.op = "simplify"
    /\ status = RUN
    /\ Tree(Arena, last.idx) = Bin("MUL", Bin("ADD", Num(1, 2), Num(-1, 1)), Num(1, 2))
    /\ Tree(Arena, last.ret) = Num(-1, 4)

\* C10: expr_equal is structural and order-sensitive.  On two handles of
\* occupied slots that unfold to trees (every child handle under them is
\* valid) it returns 1 when the two trees are the same (same variant, Number
\* value, Symbol name, function kind, variable name, children equal in the
\* same order) and 0 otherwise, and leaves the process running.
C10_StructuralEqual ==
    (last.op = "equal" /\ Whole(Arena, last.idx) /\ Whole(Arena, last.idx2)) =>
        /\ status = RUN
        /\ last.ret = (IF Tree(Arena, last.idx) = Tree(Arena, last.idx2) THEN 1 ELSE 0)

\* expr_equal has returned 0 for Add(x, y) and Add(y, x)
C10_Witness ==
    /\ last.op = "equal"
    /\ Tree(Arena, last.idx) = Bin("ADD", Sym("x"), Sym("y"))
    /\ Tree(Arena, last.idx2) = Bin("ADD", Sym("y"), Sym("x"))
    /\ last.ret = 0

\* C11: expr_equal on a free slot.  A call of expr_equal on one handle twice
\* returns 1; a call on two different handles of which one addresses a free
\* slot returns 0 and leaves the process running.
C11_EqualOnFreeSlot ==
    (last.op = "equal" /\ pc = "arena") =>
        /\ last.idx = last.idx2 => (status = RUN /\ last.ret = 1)
        /\ (/\ last.idx # last.idx2
            /\ ~pool[last.idx].used \/ ~pool[last.idx2].used) =>
                (status = RUN /\ last.ret = 0)

\* the slots that are occupied stay occupied and keep their node
C12_Step == \A i \in Slots : pool[i].used => pool'[i] = pool[i]

\* C12: nodes are immutable and the operations only append.  Over every call
\* of a constructor, expr_equal, expr_simplify, expr_differentiate,
\* expr_integrate, expr_substitute and expr_eval_numeric, also one that ends
\* the process, every slot occupied before the call is occupied after it with
\* the same variant, payload and child handles, and no slot is freed.
C12_NodesImmutable == [][C12_Step /\ free_count' <= free_count]_vars

\* an operation has built its result in new slots next to its argument
C12_Witness ==
    /\ last.op \in {"simplify", "differentiate", "integrate", "substitute"}
    /\ status = RUN
    /\ last.ret \in Occupied
    /\ last.ret > last.idx
    /\ Whole(Arena, last.idx)
    /\ Tree(Arena, last.ret) # Tree(Arena, last.idx)

\* the child handles a node stores
ChildHandles(e) ==
    CASE e.type \in {"ADD", "MUL", "POW"} -> {e.left, e.right}
      [] e.type = "FUNC" -> {e.arg}
      [] e.type \in {"DIFF", "INT"} -> {e.inner}
      [] OTHER -> {}

\* C13: arena well-formedness.  In every state the constructors and the
\* operations reach from handles of occupied slots, without any free, every
\* occupied slot holds a node of a declared variant whose child handles
\* address occupied slots, and the handle an operation has returned, unless
\* it is the Unsupported/Unresolved signal INVALID_INDEX, addresses an
\* occupied slot.
C13_WellFormedArena ==
    /\ \A i \in Occupied :
         /\ pool[i].type \in ExprTypes
         /\ ChildHandles(pool[i]) \subseteq Occupied
    /\ (/\ status = RUN
        /\ last.op \notin {"init", "equal", "eval_numeric"}
        /\ last.ret # INVALID_INDEX) => last.ret \in Occupied

\* the child handles of the node a constructor wrote into slot i, if any
Kids(i) ==
    IF pool[i].used /\ Fields(pool[i].type) \subseteq DOMAIN pool[i]
    THEN ChildHandles(pool[i]) ELSE {}

\* the handles reached from those of S through at most n child handles more
RECURSIVE Below(_, _)
Below(S, n) ==
    IF n = 0 THEN S
    ELSE Below(S \cup UNION {Kids(j) : j \in S \cap Slots}, n - 1)

\* C14: acyclicity.  In every state reached by constructor calls,
\* expr_arena_alloc, expr_arena_free and expr_arena_clear on handles of
\* occupied slots, no occupied node is reachable from itself through child
\* handles.
C14_Acyclic == \A i \in Occupied : i \notin Below(Kids(i), MaxHandles)

\* this step is a call that has allocated a slot
Allocated == free_count' < free_count

\* C15 as stated: over init, alloc, free and clear calls in any order, an
\* allocation never returns the index of a slot that is occupied, nor the
\* handle of an earlier allocation that has not been freed since.
C15_NoReuseAsStated ==
    [][Allocated =>
          /\ ~pool[last'.ret].used
          /\ last'.ret # loc["held"]]_vars

\* C15, amended: an allocation never returns the index of a slot that is
\* occupied; it returns the handle of an earlier allocation only after that
\* handle was freed, the arena cleared or the arena initialised again, which
\* is when the slot of a handle that was not freed is no longer occupied.
C15_NoReuseWhileLive ==
    [][Allocated =>
          /\ ~pool[last'.ret].used
          /\ loc["held"] \in Occupied => last'.ret # loc["held"]]_vars

\* an allocation after a free has returned a handle other than the live one
\* the caller holds
C15_Witness ==
    /\ last.op = "alloc"
    /\ status = RUN
    /\ nops > 0
    /\ loc["held"] \in Occupied
    /\ last.ret \in Occupied
    /\ last.ret # loc["held"]

\* no constructor has written a slot: the caller has only allocated
AllRaw == \A i \in Slots : pool[i].type = "UNINIT"

OutOfMemory == "exit: ExprArena out of memory"

\* this step is a call of expr_arena_alloc by an arena caller
AllocCalled ==
    /\ last'.op = "alloc"
    /\ free_count' # free_count \/ status' # status

\* the call fails exactly when no slot is free, and then changes nothing; the
\* allocations of a caller that has released nothing return 0, 1, 2, ... and
\* fail only after MAX_EXPR_COUNT of them
C16_Step ==
    AllocCalled =>
        /\ status' \in {RUN, OutOfMemory}
        /\ status' = OutOfMemory <=> free_count = 0
        /\ status' = OutOfMemory <=> (\A i \in Slots : pool[i].used)
        /\ status' = OutOfMemory =>
             /\ last'.ret = INVALID_INDEX
             /\ <<pool', free_list', free_count'>> = <<pool, free_list, free_count>>
        /\ status' = RUN =>
             /\ last'.ret \in Slots
             /\ ~pool[last'.ret].used
             /\ free_count' = free_count - 1
        /\ (nops = 0 /\ AllRaw) =>
             /\ status' = RUN => last'.ret = MAX_EXPR_COUNT - free_count
             /\ status' = OutOfMemory => Occupied = Slots

\* C16: arena exhaustion.  expr_arena_alloc fails with the out-of-memory
\* error exactly when no slot is free and leaves the arena as it was; from a
\* freshly initialised arena the first MAX_EXPR_COUNT allocations succeed and
\* the next one fails.
C16_Exhaustion == [][C16_Step]_vars

\* the MAX_EXPR_COUNT + 1st allocation on a fresh arena has failed
C16_Witness ==
    /\ last.op = "alloc"
    /\ status = OutOfMemory
    /\ nops = 0
    /\ Occupied = Slots
    /\ free_count = 0

\* this step is a call of expr_arena_free by an arena caller; last'.idx is
\* the handle it passes
FreeCalled == last'.op = "free" /\ nops' = nops + 1

\* the handles the next two allocations return in arena a
NextTwo(a) ==
    LET Second(b) == <<b.r, expr_arena_alloc(b.a).r>>
    IN  Second(expr_arena_alloc(a))

\* an allocation takes the top of the free list; a free of an occupied slot
\* puts it on top, above the slot freed just before
C17_Step ==
    /\ (Allocated /\ status' = RUN) => last'.ret = free_list[free_count - 1]
    /\ (FreeCalled /\ last'.idx \in Occupied) =>
         /\ free_list'[free_count' - 1] = last'.idx
         /\ expr_arena_alloc(Arena').r = last'.idx
         /\ (last.op = "free" /\ last.idx \in Slots /\ free_count > 0
               /\ free_list[free_count - 1] = last.idx) =>
                NextTwo(Arena') = <<last'.idx, last.idx>>

\* C17: the free list is a stack.  After expr_arena_free(h) on an occupied
\* handle the next expr_arena_alloc returns h; after freeing h1 and then h2
\* the next two allocations return h2 and then h1.
C17_LastInFirstOut == [][C17_Step]_vars

\* handles 0, 1, 2 were allocated, 1 and then 0 freed, and the two
\* allocations since have returned 0 and then 1: the free list still shows
\* the two slots in the places the two frees wrote
C17_Witness ==
    /\ last.op = "alloc"
    /\ last.ret = 1
    /\ status = RUN
    /\ nops = 2
    /\ {0, 1, 2} \subseteq Occupied
    /\ free_count = MAX_EXPR_COUNT - 3
    /\ free_list[free_count] = 1
    /\ free_list[free_count + 1] = 0
    /\ free_list[free_count + 2] = 0

\* the fields of a slot that hold an owned payload
Payloads == {"value", "name", "var"}

\* no index is twice among the free_list entries below free_count
NoIndexTwice ==
    Cardinality({free_list[i] : i \in 0..(free_count - 1)}) = free_count

\* a free of an occupied slot releases its payload and pushes it once; a
\* free of INVALID_INDEX or of a slot that is free changes nothing
C18_Step ==
    FreeCalled =>
        LET h == last'.idx
        IN  /\ status' = RUN
            /\ IF h # INVALID_INDEX /\ pool[h].used
               THEN /\ ~pool'[h].used
                    /\ pool'[h].type = pool[h].type
                    /\ DOMAIN pool'[h] = (DOMAIN pool[h]) \ Payloads
                    /\ \A i \in Slots \ {h} : pool'[i] = pool[i]
                    /\ free_count' = free_count + 1
                    /\ free_list' = [free_list EXCEPT ![free_count] = h]
               ELSE <<pool', free_list', free_count'>> = <<pool, free_list, free_count>>
            /\ NoIndexTwice'

\* C18: payload freed exactly once.  expr_arena_free releases the payload of
\* an occupied slot and returns the slot to the free list once; a second
\* call on the same handle before the slot is allocated again, or a call
\* with INVALID_INDEX, changes neither free_count, the free list nor any
\* slot, and no index is twice in the free list.
C18_FreedOnce == [][C18_Step]_vars

\* the slot of a Symbol after its free and one more call of free, on the
\* same handle or on INVALID_INDEX, that changed nothing
C18_Witness ==
    /\ last.op = "free"
    /\ last.idx = 0
    /\ nops = 2
    /\ status = RUN
    /\ pool[0] = [used |-> FALSE, type |-> "SYMBOL"]
    /\ free_count = MAX_EXPR_COUNT
    /\ free_list[MAX_EXPR_COUNT - 1] = 0

\* n calls of expr_arena_alloc in arena a, one after the other: the arena
\* after them and the set of what they returned
RECURSIVE AllocTimes(_, _)
AllocTimes(a, n) ==
    IF ~Running(a) THEN Ret(a, {INVALID_INDEX})
    ELSE IF n = 1 THEN LET One(R) == Ret(R.a, {R.r}) IN One(expr_arena_alloc(a))
    ELSE LET Both(F, S) == Ret(S.a, F.r \cup S.r)
             Then(F) == Both(F, AllocTimes(F.a, n - (n \div 2)))
         IN  Then(AllocTimes(a, n \div 2))

\* MAX_EXPR_COUNT allocations in arena a succeed and return every slot once
AllocatesAll(R) == Running(R.a) /\ R.r = Slots /\ R.a.free_count = 0

\* C19: expr_arena_clear frees every occupied slot.  After a clear, from any
\* state the callers reach, no slot is occupied, free_count is
\* MAX_EXPR_COUNT, and MAX_EXPR_COUNT allocations in a row succeed with
\* pairwise different handles.
C19_ClearFreesAll ==
    last.op = "clear" =>
        /\ status = RUN
        /\ Occupied = {}
        /\ free_count = MAX_EXPR_COUNT
        /\ AllocatesAll(AllocTimes(Arena, MAX_EXPR_COUNT))

\* the arena after a clear that found every slot occupied: the loop has
\* pushed the slots in ascending order
C19_Witness ==
    /\ last.op = "clear"
    /\ status = RUN
    /\ Occupied = {}
    /\ \A i \in Slots : free_list[i] = i

InvalidIndex == "exit: error out of range expr index"

\* C20: expr_at.  A call with INVALID_INDEX, with a handle that is
\* MAX_EXPR_COUNT or more, or with the handle of a free slot, a slot that
\* was occupied and has been freed included, ends the process with the
\* invalid-index error and returns no node; any other call returns the slot
\* of the handle.
C20_AtChecksHandle ==
    (last.op = "at") =>
        IF \/ last.idx = INVALID_INDEX
           \/ last.idx >= MAX_EXPR_COUNT
           \/ ~pool[last.idx].used
        THEN status = InvalidIndex /\ last.ret = INVALID_INDEX
        ELSE status = RUN /\ last.ret = last.idx

\* expr_at on the handle of a Symbol that has been freed
C20_Witness ==
    /\ last.op = "at"
    /\ last.idx = 0
    /\ status = InvalidIndex
    /\ pool[0] = [used |-> FALSE, type |-> "SYMBOL"]
    /\ nops > 0

\* the tree t with every Symbol named s replaced by the Number q
RECURSIVE Replaced(_, _, _)
Replaced(t, s, q) ==
    CASE t.type = "SYMBOL" -> IF t.name = s THEN [type |-> "NUMBER", value |-> q] ELSE t
      [] t.type \in {"ADD", "MUL", "POW"} ->
           [type |-> t.type, left |-> Replaced(t.left, s, q), right |-> Replaced(t.right, s, q)]
      [] t.type = "FUNC" -> [type |-> "FUNC", func |-> t.func, arg |-> Replaced(t.arg, s, q)]
      [] t.type \in {"DIFF", "INT"} ->
           [type |-> t.type, var |-> t.var, inner |-> Replaced(t.inner, s, q)]
      [] OTHER -> t

\* a Symbol named s is a node of the tree t
RECURSIVE Mentions(_, _)
Mentions(t, s) ==
    CASE t.type = "SYMBOL" -> t.name = s
      [] t.type \in {"ADD", "MUL", "POW"} -> Mentions(t.left, s) \/ Mentions(t.right, s)
      [] t.type = "FUNC" -> Mentions(t.arg, s)
      [] t.type \in {"DIFF", "INT"} -> Mentions(t.inner, s)
      [] OTHER -> FALSE

\* the rational that the literal the callers substitute stands for
SubstitutedValue ==
    mpq_canonicalize(mpq_set_str(CHOOSE v \in SubstValues : TRUE).q)

\* C21: expr_substitute is a pure structural replacement.  Whenever
\* expr_substitute(e, s, v) has been called on a well-formed expression e of
\* any variant, the process runs on and the result unfolds to the tree of e
\* with every Symbol named s replaced by Number(parse(v)) and every other node
\* as it was (nothing simplified), so that no Symbol named s is in the result.
C21_PureReplacement ==
    (last.op = "substitute" /\ Whole(Arena, last.idx)) =>
        /\ status = RUN
        /\ Tree(Arena, last.ret) = Replaced(Tree(Arena, last.idx), last.var, SubstitutedValue)
        /\ ~Mentions(Tree(Arena, last.ret), last.var)

\* the same of the expressions over Number, Symbol, Add, Mul, Pow and Call
C21_PlainReplacement ==
    (last.op = "substitute" /\ Plain(Arena, last.idx)) =>
        /\ status = RUN
        /\ Tree(Arena, last.ret) = Replaced(Tree(Arena, last.idx), last.var, SubstitutedValue)
        /\ ~Mentions(Tree(Arena, last.ret), last.var)

\* some Symbol is a node of the tree t
RECURSIVE HasSymbol(_)
HasSymbol(t) ==
    CASE t.type = "SYMBOL" -> TRUE
      [] t.type \in {"ADD", "MUL", "POW"} -> HasSymbol(t.left) \/ HasSymbol(t.right)
      [] t.type = "FUNC" -> HasSymbol(t.arg)
      [] t.type \in {"DIFF", "INT"} -> HasSymbol(t.inner)
      [] OTHER -> FALSE

FreeSymbolError == "exit: Cannot evaluate expression with free symbol"

\* expr_substitute applied to the result A of a call, for each name of S in turn
RECURSIVE SubstituteEach(_, _)
SubstituteEach(A, S) ==
    IF S = {} THEN A
    ELSE LET s == CHOOSE n \in S : TRUE
         IN  SubstituteEach(expr_substitute(A.a, A.r, s, CHOOSE v \in SubstValues : TRUE),
                            S \ {s})

\* C22: the free-symbol error of expr_eval_numeric.  Whenever expr_eval_numeric
\* has been called on an expression over Number, Symbol, Add, Mul, Pow and
\* Call, the process has ended with the free-symbol error if some Symbol is
\* reachable from the expression, and runs on if none is.  Whenever
\* expr_substitute has been called on such an expression, then after the
\* substitution of every other symbol name, evaluation of the result, and of
\* simplify of the result, does not end with the free-symbol error.
C22_FreeSymbol ==
    /\ (last.op = "eval_numeric" /\ Plain(Arena, last.idx)) =>
          IF HasSymbol(Tree(Arena, last.idx)) THEN status = FreeSymbolError
          ELSE status = RUN
    /\ (last.op = "substitute" /\ Plain(Arena, last.idx)) =>
          LET ground == SubstituteEach(Ret(Arena, last.ret), Names \ {last.var})
              simple == expr_simplify(ground.a, ground.r)
          IN  /\ Running(ground.a)
              /\ ~HasSymbol(Tree(ground.a, ground.r))
              /\ expr_eval_numeric(ground.a, ground.r).a.status # FreeSymbolError
              /\ Running(simple.a)
              /\ expr_eval_numeric(simple.a, simple.r).a.status # FreeSymbolError

\* expr_eval_numeric has ended the process on 1/2 + sin(x), whose only Symbol
\* is under the Call on the right
C22_Witness ==
    /\ last.op = "eval_numeric"
    /\ Tree(Arena, last.idx) = Bin("ADD", Num(1, 2), Fn("SIN", Sym("x")))
    /\ status = FreeSymbolError

\* simplify(t(Number lit, e)) or, with the Number on the right,
\* simplify(t(e, Number lit)), built in arena a for the expression at e
SimplifiedWith(a, t, lit, e, onLeft) ==
    LET n == expr_number(a, lit)
        b == IF onLeft THEN Construct(n.a, BinopNode(t, n.r, e))
             ELSE Construct(n.a, BinopNode(t, e, n.r))
    IN  expr_simplify(b.a, b.r)

\* C23: additive and multiplicative identities.  Whenever simplify has
\* returned s for an expression e over Number, Symbol, Add, Mul, Pow and Call,
\* simplify(Add(Number 0, e)), simplify(Add(e, Number 0)) and
\* simplify(Mul(Number 1, e)) return, and each unfolds to the tree of s, and
\* simplify(Mul(Number 0, e)) returns Number 0.
C23_Identities ==
    (last.op = "simplify" /\ status = RUN /\ Plain(Arena, last.idx)) =>
        LET zeroPlus  == SimplifiedWith(Arena, "ADD", <<"0">>, last.idx, TRUE)
            plusZero  == SimplifiedWith(Arena, "ADD", <<"0">>, last.idx, FALSE)
            oneTimes  == SimplifiedWith(Arena, "MUL", <<"1">>, last.idx, TRUE)
            zeroTimes == SimplifiedWith(Arena, "MUL", <<"0">>, last.idx, TRUE)
        IN  /\ Running(zeroPlus.a) /\ Tree(zeroPlus.a, zeroPlus.r) = Tree(Arena, last.ret)
            /\ Running(plusZero.a) /\ Tree(plusZero.a, plusZero.r) = Tree(Arena, last.ret)
            /\ Running(oneTimes.a) /\ Tree(oneTimes.a, oneTimes.r) = Tree(Arena, last.ret)
            /\ Running(zeroTimes.a) /\ Tree(zeroTimes.a, zeroTimes.r) = Num(0, 1)

\* no Add or Mul node of the tree t has a Number on the right of a Symbol,
\* Call, Mul or Add
RECURSIVE CoefficientLeftmost(_)
CoefficientLeftmost(t) ==
    CASE t.type \in {"ADD", "MUL"} ->
           /\ ~(t.right.type = "NUMBER" /\ t.left.type \in {"SYMBOL", "FUNC", "MUL", "ADD"})
           /\ CoefficientLeftmost(t.left)
           /\ CoefficientLeftmost(t.right)
      [] t.type = "POW" -> CoefficientLeftmost(t.left) /\ CoefficientLeftmost(t.right)
      [] t.type = "FUNC" -> CoefficientLeftmost(t.arg)
      [] t.type \in {"DIFF", "INT"} -> CoefficientLeftmost(t.inner)
      [] OTHER -> TRUE

\* the tree t is inner(Symbol, Number c) with a Number k on its right under
\* a Mul, for inner Mul or Add, and c * k is neither 0 nor 1
CoefficientOnRight(t, inner) ==
    /\ t.type = "MUL"
    /\ t.right.type = "NUMBER"
    /\ t.left.type = inner
    /\ t.left.left.type = "SYMBOL"
    /\ t.left.right.type = "NUMBER"
    /\ mpq_mul(t.left.right.value, t.right.value) \notin {<<0, 1>>, <<1, 1>>}

\* C24: the numeric coefficient is leftmost after simplify.  Whenever simplify
\* has returned for an expression over Number, Symbol, Add, Mul, Pow and Call,
\* no Mul and no Add node of the result has a Number as its right child and a
\* Symbol, Call, Mul or Add as its left child; the result for
\* Mul(Mul(Symbol x, Number c), Number k) is Mul(Number(c*k), Symbol x) when
\* c*k is not 0 or 1, and the result for Mul(Add(Symbol x, Number c), Number k)
\* is Add(Number(c*k), Mul(Number k, Symbol x)).
C24_CoefficientLeftmost ==
    (last.op = "simplify" /\ status = RUN /\ Plain(Arena, last.idx)) =>
        LET t == Tree(Arena, last.idx)
            s == Tree(Arena, last.ret)
        IN  /\ CoefficientLeftmost(s)
            /\ CoefficientOnRight(t, "MUL") =>
                  s = Bin("MUL", [type |-> "NUMBER",
                                  value |-> mpq_mul(t.left.right.value, t.right.value)],
                          t.left.left)
            /\ CoefficientOnRight(t, "ADD") =>
                  s = Bin("ADD", [type |-> "NUMBER",
                                  value |-> mpq_mul(t.left.right.value, t.right.value)],
                          Bin("MUL", t.right, t.left.left))

\* the rules of case EXPR_POW in the order the claim gives them, on the trees
\* B and E of the simplified base and the simplified exponent
PowRules(B, E) ==
    IF E = Num(0, 1) THEN Num(1, 1)
    ELSE IF E = Num(1, 1) THEN B
    ELSE IF B = Num(0, 1) THEN Num(0, 1)
    ELSE IF B = Num(1, 1) THEN Num(1, 1)
    ELSE Bin("POW", B, E)

\* the Number node a literal stands for, as a tree
NumberOf(lit) == [type |-> "NUMBER", value |-> mpq_canonicalize(mpq_set_str(lit).q)]

\* C25: the order of the Pow rules of expr_simplify.  Whenever simplify has
\* returned for Pow(b, x) over Number, Symbol, Add, Mul, Pow and Call, the
\* result is what the rules give for simplify(b) and simplify(x): Number 1 for
\* the exponent Number 0, else the simplified base for the exponent Number 1,
\* else Number 0 for the base Number 0, else Number 1 for the base Number 1,
\* else Pow(simplify(b), simplify(x)), a Pow of two Numbers included.  The
\* same holds of Pow(e, Number q) and Pow(Number q, e) for every expression e
\* that simplify has returned for and every literal q.
C25_PowRuleOrder ==
    (last.op = "simplify" /\ status = RUN /\ Plain(Arena, last.idx)) =>
        LET e == expr_at(Arena, last.idx)
            B == expr_simplify(Arena, e.left)
            E == expr_simplify(B.a, e.right)
            s == Tree(Arena, last.ret)
        IN  /\ e.type = "POW" =>
                  Tree(Arena, last.ret) = PowRules(Tree(B.a, B.r), Tree(E.a, E.r))
            /\ \A lit \in Literals :
                  LET under == SimplifiedWith(Arena, "POW", lit, last.idx, FALSE)
                      over  == SimplifiedWith(Arena, "POW", lit, last.idx, TRUE)
                  IN  /\ Running(under.a)
                      /\ Tree(under.a, under.r) = PowRules(s, NumberOf(lit))
                      /\ Running(over.a)
                      /\ Tree(over.a, over.r) = PowRules(NumberOf(lit), s)

\* the rule table of the differentiator on trees: the derivative of the tree t
\* by var, NoTree where the table has no rule (Unsupported)
RECURSIVE DerivativeByTable(_, _)
DerivativeByTable(t, var) ==
    CASE t.type = "NUMBER" -> Num(0, 1)
      [] t.type = "SYMBOL" -> IF t.name = var THEN Num(1, 1) ELSE Num(0, 1)
      [] t.type = "ADD" ->
           Bin("ADD", DerivativeByTable(t.left, var), DerivativeByTable(t.right, var))
      [] t.type = "MUL" ->
           Bin("ADD", Bin("MUL", DerivativeByTable(t.left, var), t.right),
                      Bin("MUL", t.left, DerivativeByTable(t.right, var)))
      [] t.type = "POW" ->
           IF t.left = Sym(var) /\ t.right.type = "NUMBER"
           THEN Bin("MUL", t.right,
                    Bin("POW", t.left,
                        [type |-> "NUMBER", value |-> mpq_sub(t.right.value, <<1, 1>>)]))
           ELSE NoTree
      [] t.type = "FUNC" ->
           LET u  == t.arg
               du == DerivativeByTable(u, var)
           IN  CASE t.func = "SIN" -> Bin("MUL", Fn("COS", u), du)
                 [] t.func = "COS" -> Bin("MUL", Bin("MUL", Num(-1, 1), Fn("SIN", u)), du)
                 [] t.func = "EXP" -> Bin("MUL", Fn("EXP", u), du)
                 [] t.func = "LOG" -> Bin("MUL", Bin("POW", u, Num(-1, 1)), du)
      [] OTHER -> NoTree

\* C26: expr_differentiate follows the rule table without simplifying.
\* Whenever expr_differentiate has been called on an expression over Number,
\* Symbol, Add, Mul, Pow and Call, the process runs on; the call has returned
\* the invalid handle exactly when the expression is a Pow other than
\* Pow(Symbol var, Number n), and otherwise the result unfolds to the tree the
\* table gives: 0, 1 or 0, Add(d l, d r), Add(Mul(d f, g), Mul(f, d g)),
\* Mul(Number n, Pow(Symbol var, Number(n-1))), Mul(cos(u), du),
\* Mul(Mul(-1, sin(u)), du), Mul(exp(u), du), Mul(Pow(u, -1), du), with an
\* operand's Unsupported derivative in the place of that operand's derivative.
C26_RuleTable ==
    (last.op = "differentiate" /\ Plain(Arena, last.idx)) =>
        LET d == DerivativeByTable(Tree(Arena, last.idx), last.var)
        IN  /\ status = RUN
            /\ last.ret = INVALID_INDEX <=> d = NoTree
            /\ Tree(Arena, last.ret) = d

\* expr_differentiate has returned (-1 * sin(x^(1/2))) * (1/2 * x^(-1/2)) for
\* cos(x^(1/2))
C26_Witness ==
    /\ last.op = "differentiate"
    /\ status = RUN
    /\ Tree(Arena, last.idx) = Fn("COS", Bin("POW", Sym("x"), Num(1, 2)))
    /\ Tree(Arena, last.ret) =
           Bin("MUL", Bin("MUL", Num(-1, 1), Fn("SIN", Bin("POW", Sym("x"), Num(1, 2)))),
                      Bin("MUL", Num(1, 2), Bin("POW", Sym("x"), Num(-1, 2))))

DivisionByZero == "abort: division by zero"

\* the tree t is Pow(Symbol var, Number n)
Monomial(t, var) == t.type = "POW" /\ t.left = Sym(var) /\ t.right.type = "NUMBER"

\* 1/(n+1) * var^(n+1), for n + 1 other than 0
PowerRuleTree(n, var) ==
    LET m == mpq_add(n, <<1, 1>>)
    IN  Bin("MUL", [type |-> "NUMBER", value |-> mpq_div(<<1, 1>>, m)],
                   Bin("POW", Sym(var), [type |-> "NUMBER", value |-> m]))

\* the power rule for the exponents other than -1, and no rule for another Pow
PowerRuleElsewhere ==
    (last.op = "integrate" /\ Plain(Arena, last.idx) /\ expr_type(Arena, last.idx) = "POW") =>
        LET t == Tree(Arena, last.idx)
        IN  IF ~Monomial(t, last.var) THEN status = RUN /\ last.ret = INVALID_INDEX
            ELSE t.right.value # <<-1, 1>> =>
                    /\ status = RUN
                    /\ Tree(Arena, last.ret) = PowerRuleTree(t.right.value, last.var)

\* C27: the power rule of the integrator.  Whenever expr_integrate has been
\* called on Pow(Symbol var, Number n) by var, no Number of value zero has
\* been divided by, for n = -1 as for every other n, the process runs on and
\* the result is Mul(Number(1/(n+1)), Pow(Symbol var, Number(n+1))) with n+1
\* exact; whenever it has been called on a Pow of another shape it has returned
\* the invalid handle and the process runs on.
C27_PowerRule ==
    /\ PowerRuleElsewhere
    /\ (/\ last.op = "integrate"
        /\ Plain(Arena, last.idx)
        /\ Monomial(Tree(Arena, last.idx), last.var)) =>
           /\ status # DivisionByZero
           /\ status = RUN

DeferredTypes == {"DIFF", "INT"}

\* C28: deferred nodes are opaque to the calculus resolvers.  In every call of
\* expr_differentiate or expr_integrate on a well-formed Derivative or
\* Integral node the call returns the invalid handle and the process runs on;
\* in every call of simplify on a deferred node whose simplified inner
\* expression is itself a deferred node, the process runs on and simplify
\* returns a deferred node of the same kind that wraps the simplified inner
\* expression.
C28_Step ==
    LET d == pool[last'.idx]
        s == expr_simplify(Arena, d.inner)
    IN  /\ (/\ Called("differentiate") \/ Called("integrate")
            /\ Whole(Arena, last'.idx)
            /\ d.type \in DeferredTypes) =>
               (status' = RUN /\ last'.ret = INVALID_INDEX)
        /\ (/\ Called("simplify")
            /\ Whole(Arena, last'.idx)
            /\ d.type \in DeferredTypes
            /\ Running(s.a)
            /\ expr_type(s.a, s.r) \in DeferredTypes) =>
               /\ status' = RUN
               /\ Tree(Arena', last'.ret) = Deferred(d.type, d.var, Tree(s.a, s.r))

\* C28: every step treats a deferred node as opaque
C28_DeferredOpaque == [][C28_Step]_vars

\* the statements of the example programs that call expr_simplify
SimplifyStatements ==
    {"calculus:35", "calculus:45", "calculus:54", "calculus:76", "calculus:82",
     "numbers:123", "numbers:131", "numbers:139"}

\* C29: termination of expr_simplify.  A rule that rebuilt an expression that
\* triggers the same rule again would allocate a node in every round and end
\* only when the arena is exhausted.  Whenever expr_simplify has been called,
\* by a caller on a well-formed expression or by a statement of the example
\* programs, the arena was not exhausted; whenever it has been called on an
\* expression over Number, Symbol, Add, Mul, Pow and Call, it has returned an
\* expression over these.
C29_SimplifyTerminates ==
    /\ (last.op = "simplify" /\ Whole(Arena, last.idx)) => status # OutOfMemory
    /\ last.op \in SimplifyStatements => status # OutOfMemory
    /\ (last.op = "simplify" /\ Plain(Arena, last.idx)) =>
          /\ status = RUN
          /\ Plain(Arena, last.ret)

\* simplify has returned 1/4 + 1/2 * x for (x + 1/2) * 1/2: operand swap,
\* distribution over the Add and merge of the coefficients
C29_Witness ==
    /\ last.op = "simplify"
    /\ status = RUN
    /\ Tree(Arena, last.idx) = Bin("MUL", Bin("ADD", Sym("x"), Num(1, 2)), Num(1, 2))
    /\ Tree(Arena, last.ret) = Bin("ADD", Num(1, 4), Bin("MUL", Num(1, 2), Sym("x")))

\* the slots that are not in use, and the entries of the free list that count
Unused == {i \in Slots : ~pool[i].used}

Listed == {free_list[j] : j \in 0..(free_count - 1)}

\* C30: consistency of the free list.  In every state the arena callers
\* reach with expr_arena_init, expr_arena_alloc, the constructors,
\* expr_arena_free and expr_arena_clear, free_count is between 0 and
\* MAX_EXPR_COUNT and is the number of slots that are not in use, and the
\* first free_count entries of free_list are the indices of exactly these
\* slots, each once; while a caller has released nothing, the k-th allocation
\* has returned the handle k-1.
C30_FreeListConsistent ==
    /\ free_count \in 0..MAX_EXPR_COUNT
    /\ free_count = Cardinality(Unused)
    /\ Listed = Unused
    /\ Cardinality(Listed) = free_count
    /\ (nops = 0 /\ status = RUN /\ last.op \in {"alloc", "symbol", "add"}) =>
          last.ret = MAX_EXPR_COUNT - free_count - 1

\* three slots were allocated and slots 0 and 2 were freed, in this order
C30_Witness ==
    /\ status = RUN
    /\ nops = 2
    /\ Unused = Slots \ {1}
    /\ free_count = MAX_EXPR_COUNT - 1
    /\ free_list[MAX_EXPR_COUNT - 3] = 0
    /\ free_list[MAX_EXPR_COUNT - 2] = 2

=============================================================================
